---- MODULE Spec2Model ----
(***************************************************************************)
(* skyweave: the request pipeline of handlers.go and main.go.              *)
(*                                                                         *)
(* One row of the requests table per request id, the HTTP handlers that    *)
(* write it (submit, confirm, cancel) and the two goroutines they start:   *)
(* processWeatherRequest and processImageWithReplicate.  Every access to   *)
(* the table is one step; a call to an outside service (geocoder, weather, *)
(* Replicate, the file system) reads and writes nothing of the table and   *)
(* is taken together with the table access that follows it.  The error a   *)
(* call returns is an input of the step wherever the code looks at it; a   *)
(* write whose result the code throws away (updateRequestError,            *)
(* updateRequestStatus) is taken as the code takes it, as done.            *)
(*                                                                         *)
(* Spec is the pipeline with two concurrent confirm requests.  SpecObs is  *)
(* the pipeline with one, where each poll and each answer of the image     *)
(* handler is noted in obs.  SpecFn takes the geocoder client, the weather *)
(* client, the hourly aggregation and the prompt one call at a time: obs   *)
(* starts as a call with its arguments and the step is its return.         *)
(***************************************************************************)
EXTENDS Integers, Sequences, FiniteSets, TLC

VARIABLES
    store,      \* the requests table: request id -> row
    submitted,  \* request ids whose POST /submit has been served
    wt,         \* request id -> the processWeatherRequest goroutine of that id
    ch,         \* handler -> a POST /confirm with action=confirm being served
    run,        \* handler -> the processImageWithReplicate goroutine it started
    jobs,       \* the predictions created at the transform provider
    obs         \* the last call looked at from outside: what it was given
                \* and what it answered (no code reads it)

vars == <<store, submitted, wt, ch, run, jobs, obs>>

----------------------------------------------------------------------------
(* Scope of the model *)

\* The request ids generateID hands out, and the concurrent POST /confirm
\* requests (net/http serves each in its own goroutine).
Ids == {"r1"}
Handlers == {"h1", "h2"}

\* maxAttempts of the poll loop.
maxAttempts == 120

----------------------------------------------------------------------------
(* Inputs: what the outside services answer *)

GeoResult == [Name |-> "Paris", Country |-> "FR", Lat |-> 49, Lon |-> 2]

\* geocodeLocation: a result or an error.
GeoOutcomes ==
    { [ok |-> TRUE, res |-> <<GeoResult>>, err |-> ""],
      [ok |-> FALSE, res |-> <<>>, err |-> "location not found"] }

\* A WeatherData summary (tenths of a degree, of a millimetre, of a m/s).
Sunny ==
    [Temp |-> 250, FeelsLike |-> 240, Pressure |-> 1013, Humidity |-> 40,
     Clouds |-> 15, Visibility |-> 10000, WindSpeed |-> 30, WindDeg |-> 0,
     Condition |-> "Clear", Description |-> "clear sky", Rain |-> 0, Snow |-> 0]

\* getHistoricalWeather: a summary or an error.
WeatherOutcomes ==
    { [ok |-> TRUE, res |-> <<Sunny>>, err |-> ""],
      [ok |-> FALSE, res |-> <<>>,
       err |-> "no historical data available for this date"] }

\* The status values a poll can return (ReplicatePrediction.Status).
ProviderStatus == {"starting", "processing", "succeeded", "failed", "canceled"}

\* ReplicatePrediction.Output: a string, an array of strings, or neither.
OutputURL == "https://replicate.delivery/out.jpg"
Outputs == { [kind |-> "string", v |-> <<OutputURL>>],
             [kind |-> "string", v |-> <<"">>],
             [kind |-> "array", v |-> <<OutputURL, "second">>],
             [kind |-> "array", v |-> <<>>],
             [kind |-> "null", v |-> <<>>] }

\* ReplicatePrediction.Error
ErrorTexts == {"", "NSFW content detected"}

----------------------------------------------------------------------------
(* The requests table *)

Statuses ==
    {"pending", "geocoding", "weather_fetching", "weather_fetched",
     "confirmed", "processing", "completed", "cancelled", "error"}

\* saveRequest: the INSERT of a new row; every other column is NULL, which
\* getRequest reads as '' (COALESCE); a NULL column group is <<>>.
NewRow(userID, location, date, imagePath) ==
    [user_id |-> userID, location_input |-> location, target_date |-> date,
     image_path |-> imagePath, status |-> "pending",
     geo |-> <<>>, weather |-> <<>>, precipitation |-> "", ai_prompt |-> "",
     prediction_id |-> "", error_message |-> "", result_image_path |-> ""]

\* An UPDATE without its WHERE clause: every row is set.
Update_everyRow(id, row) == [x \in DOMAIN store |-> row]

\* UPDATE requests SET ... WHERE id = ?: no row, no change.
Update(id, row) == [store EXCEPT ![id] = row]

\* updateRequestGeocode
updateRequestGeocode(id, g) ==
    IF id \in DOMAIN store
    THEN Update(id, [store[id] EXCEPT !.geo = <<g>>, !.status = "geocoding"])
    ELSE store

\* updateRequestError
updateRequestError(id, errorMsg) ==
    IF id \in DOMAIN store
    THEN Update(id, [store[id] EXCEPT !.status = "error",
                                      !.error_message = errorMsg])
    ELSE store

\* updateRequestPredictionID
updateRequestPredictionID(id, predictionID) ==
    IF id \in DOMAIN store
    THEN Update(id, [store[id] EXCEPT !.prediction_id = predictionID,
                                      !.status = "processing"])
    ELSE store

\* A change of status that wipes the error message.
updateRequestStatus_resetsError(id, status) ==
    IF id \in DOMAIN store
    THEN Update(id, [store[id] EXCEPT !.status = status, !.error_message = ""])
    ELSE store

\* updateRequestStatus
updateRequestStatus(id, status) ==
    IF id \in DOMAIN store
    THEN Update(id, [store[id] EXCEPT !.status = status])
    ELSE store

\* The status set to completed and the path left as it was.
updateRequestResult_statusOnly(id, resultPath) ==
    IF id \in DOMAIN store
    THEN Update(id, [store[id] EXCEPT !.status = "completed"])
    ELSE store

\* updateRequestResult
updateRequestResult(id, resultPath) ==
    IF id \in DOMAIN store
    THEN Update(id, [store[id] EXCEPT !.result_image_path = resultPath,
                                      !.status = "completed"])
    ELSE store

----------------------------------------------------------------------------
(* Prompt synthesis *)

\* fmt's %.1f of a value held in tenths.
Fmt1(t) ==
    LET a == IF t < 0 THEN -t ELSE t
    IN  (IF t < 0 THEN "-" ELSE "") \o ToString(a \div 10) \o "."
            \o ToString(a % 10)

\* The temperature bands with their upper edges taken in.
tempDesc_inclusive(temp) ==
    IF temp < 0 THEN "freezing cold"
    ELSE IF temp <= 100 THEN "cold"
    ELSE IF temp <= 200 THEN "cool"
    ELSE IF temp <= 280 THEN "warm"
    ELSE "hot"

\* generatePrompt: the temperature band.
tempDesc(temp) ==
    IF temp < 0 THEN "freezing cold"
    ELSE IF temp < 100 THEN "cold"
    ELSE IF temp < 200 THEN "cool"
    ELSE IF temp < 280 THEN "warm"
    ELSE "hot"

\* generatePrompt: the cloud band.
cloudiness(clouds) ==
    IF clouds < 20 THEN "clear skies"
    ELSE IF clouds < 50 THEN "partly cloudy skies"
    ELSE IF clouds < 80 THEN "mostly cloudy skies"
    ELSE "overcast skies"

\* generatePrompt: the visibility clause.
visibilityDesc(visibility) ==
    IF visibility < 1000 THEN "with very poor visibility"
    ELSE IF visibility < 5000 THEN "with reduced visibility"
    ELSE ""

\* The snow looked at before the rain.
precipitationDesc_snowFirst(rain, snow) ==
    IF snow > 0
    THEN (IF snow < 25 THEN "light snow"
          ELSE IF snow < 100 THEN "moderate snow" ELSE "heavy snow")
    ELSE IF rain > 0
    THEN (IF rain < 25 THEN "light rain"
          ELSE IF rain < 100 THEN "moderate rain" ELSE "heavy rain")
    ELSE ""

\* generatePrompt: the precipitation clause (amounts in tenths of a mm).
precipitationDesc(rain, snow) ==
    IF rain > 0
    THEN (IF rain < 25 THEN "light rain"
          ELSE IF rain < 100 THEN "moderate rain" ELSE "heavy rain")
    ELSE IF snow > 0
    THEN (IF snow < 25 THEN "light snow"
          ELSE IF snow < 100 THEN "moderate snow" ELSE "heavy snow")
    ELSE ""

\* The wind bands with their lower edges taken in.
windDesc_inclusive(windSpeed) ==
    IF windSpeed >= 100 THEN "with strong winds"
    ELSE IF windSpeed >= 50 THEN "with moderate winds"
    ELSE ""

\* generatePrompt: the wind clause (speed in tenths of a m/s).
windDesc(windSpeed) ==
    IF windSpeed > 100 THEN "with strong winds"
    ELSE IF windSpeed > 50 THEN "with moderate winds"
    ELSE ""

\* generatePrompt
generatePrompt(weatherData, locationName) ==
    LET condition == IF weatherData.Condition = "" THEN "clear"
                     ELSE weatherData.Condition
        description == IF weatherData.Description = "" THEN "clear sky"
                       ELSE weatherData.Description
        precipitation == precipitationDesc(weatherData.Rain, weatherData.Snow)
        vis == visibilityDesc(weatherData.Visibility)
        wind == windDesc(weatherData.WindSpeed)
    IN  "Transform this landscape photo to accurately depict " \o locationName
        \o " weather conditions. The scene should show " \o condition
        \o " (" \o description \o ") with " \o cloudiness(weatherData.Clouds)
        \o " and a temperature of " \o Fmt1(weatherData.Temp) \o "C ("
        \o tempDesc(weatherData.Temp) \o "). "
        \o (IF precipitation # ""
            THEN "Add " \o precipitation \o " falling in the scene. " ELSE "")
        \o (IF vis # ""
            THEN "The atmosphere should appear " \o vis \o ". " ELSE "")
        \o (IF wind # ""
            THEN "Show signs of wind " \o wind
                 \o " such as swaying trees or grass. " ELSE "")
        \o "The lighting should match the cloudiness level (clouds: "
        \o ToString(weatherData.Clouds) \o "%). Maintain the original "
        \o "composition and main subjects of the photo while authentically "
        \o "applying these weather conditions. The result should look "
        \o "natural and photorealistic."

\* updateRequestWeather: the precipitation column.
precipitationColumn(weatherData) ==
    IF weatherData.Rain > 0 THEN "Rain: " \o Fmt1(weatherData.Rain) \o "mm"
    ELSE IF weatherData.Snow > 0
    THEN "Snow: " \o Fmt1(weatherData.Snow) \o "mm"
    ELSE ""

\* updateRequestWeather
updateRequestWeather(id, weatherData, prompt) ==
    IF id \in DOMAIN store
    THEN [store EXCEPT ![id] =
            [store[id] EXCEPT !.weather = <<weatherData>>,
                              !.precipitation = precipitationColumn(weatherData),
                              !.ai_prompt = prompt,
                              !.status = "weather_fetched"]]
    ELSE store

----------------------------------------------------------------------------
(* The goroutines and handlers: local state *)

\* A processWeatherRequest that has not been started.
NoWeatherTask == [pc |-> "none", location |-> "", geo |-> <<>>, wd |-> <<>>,
                  end |-> ""]

\* A POST /confirm that has not arrived.
NoConfirm == [pc |-> "idle", id |-> "", status |-> ""]

\* A processImageWithReplicate that has not been started.
NoRun == [pc |-> "none", id |-> "", image |-> "", prompt |-> "", url |-> "",
          pid |-> "", i |-> 0, polls |-> 0, end |-> ""]

\* No call looked at yet.
NoCall == [fn |-> "none"]

Init ==
    /\ store = [r \in {} |-> NewRow("", "", "", "")]
    /\ submitted = {}
    /\ wt = [r \in Ids |-> NoWeatherTask]
    /\ ch = [h \in Handlers |-> NoConfirm]
    /\ run = [h \in Handlers |-> NoRun]
    /\ jobs = {}
    /\ obs = NoCall

\* saveUploadedFile: data/uploads/<requestID><ext>
uploadPath(requestID) == "data/uploads/" \o requestID \o ".jpg"

\* processImageWithReplicate: data/results/<requestID>.jpg
resultPath(requestID) == "data/results/" \o requestID \o ".jpg"

----------------------------------------------------------------------------
(* POST /submit *)

\* submitHandler, from the saveRequest on (a form that does not parse is
\* answered before any id is drawn and leaves nothing behind).
submitHandler(r, location, saved) ==
    /\ r \notin submitted
    /\ submitted' = submitted \cup {r}
    /\ IF saved
       THEN /\ store' = (r :> NewRow("u1", location, "2025-06-01", uploadPath(r)))
                            @@ store
            /\ wt' = [wt EXCEPT ![r] = [NoWeatherTask EXCEPT
                                            !.pc = "geocode",
                                            !.location = location]]
       ELSE UNCHANGED <<store, wt>>
    /\ UNCHANGED <<ch, run, jobs>>

----------------------------------------------------------------------------
(* processWeatherRequest *)

\* The goroutine returns: its locals are gone; `end` notes the return taken.
WtEnd(r, how) == wt' = [wt EXCEPT ![r] = [NoWeatherTask EXCEPT !.pc = "done",
                                                               !.end = how]]

\* Step 1: geocodeLocation, then updateRequestError or updateRequestGeocode.
WtGeocode(r, g, saved) ==
    /\ wt[r].pc = "geocode"
    /\ IF ~g.ok
       THEN /\ store' = updateRequestError(r, "Failed to find location: " \o g.err)
            /\ WtEnd(r, "geocode_failed")
       ELSE IF ~saved
       THEN /\ UNCHANGED store
            /\ WtEnd(r, "geocode_save_failed")
       ELSE /\ store' = updateRequestGeocode(r, g.res[1])
            /\ wt' = [wt EXCEPT ![r].pc = "status", ![r].geo = g.res]
    /\ UNCHANGED <<submitted, ch, run, jobs>>

\* The weather fetched without the status having been moved on.
WtStatus_noWrite(r) ==
    /\ wt[r].pc = "status"
    /\ wt' = [wt EXCEPT ![r].pc = "weather"]
    /\ UNCHANGED <<store, submitted, ch, run, jobs>>

\* updateRequestStatus(requestID, "weather_fetching")
WtStatus(r) ==
    /\ wt[r].pc = "status"
    /\ store' = updateRequestStatus(r, "weather_fetching")
    /\ wt' = [wt EXCEPT ![r].pc = "weather"]
    /\ UNCHANGED <<submitted, ch, run, jobs>>

\* The error of the fetch logged and nothing more: the task goes on.
WtWeather_ignoresError(r, w) ==
    /\ wt[r].pc = "weather"
    /\ wt' = [wt EXCEPT ![r].pc = "getreq", ![r].wd = w.res]
    /\ UNCHANGED <<store, submitted, ch, run, jobs>>

\* Step 2: getHistoricalWeather.
WtWeather(r, w) ==
    /\ wt[r].pc = "weather"
    /\ IF ~w.ok
       THEN /\ store' = updateRequestError(r, "Failed to fetch weather: " \o w.err)
            /\ WtEnd(r, "weather_failed")
       ELSE /\ UNCHANGED store
            /\ wt' = [wt EXCEPT ![r].pc = "getreq", ![r].wd = w.res]
    /\ UNCHANGED <<submitted, ch, run, jobs>>

\* Step 3: getRequest for the prompt.
WtGetRequest(r, found) ==
    /\ wt[r].pc = "getreq"
    /\ IF ~(found /\ r \in DOMAIN store)
       THEN /\ store' = updateRequestError(r, "Failed to retrieve request details")
            /\ WtEnd(r, "getreq_failed")
       ELSE /\ UNCHANGED store
            /\ wt' = [wt EXCEPT ![r].pc = "save"]
    /\ UNCHANGED <<submitted, ch, run, jobs>>

\* processWeatherRequest: locationStr
locationStr(g) == IF g.Country # "" THEN g.Name \o ", " \o g.Country ELSE g.Name

\* generatePrompt, then updateRequestWeather.
WtSave(r, saved) ==
    /\ wt[r].pc = "save"
    /\ IF saved
       THEN /\ store' = updateRequestWeather(r, wt[r].wd[1],
                            generatePrompt(wt[r].wd[1], locationStr(wt[r].geo[1])))
            /\ WtEnd(r, "ok")
       ELSE /\ store' = updateRequestError(r, "Failed to save weather data")
            /\ WtEnd(r, "save_failed")
    /\ UNCHANGED <<submitted, ch, run, jobs>>

----------------------------------------------------------------------------
(* POST /confirm *)

\* A cancel that also stops the poll loops of the request.
cancelHandler_stopsRuns(r) ==
    /\ store' = updateRequestStatus(r, "cancelled")
    /\ run' = [h \in DOMAIN run |->
                 IF run[h].pc = "poll" /\ run[h].id = r
                 THEN [NoRun EXCEPT !.pc = "done", !.id = r, !.end = "stopped"]
                 ELSE run[h]]
    /\ UNCHANGED <<submitted, wt, ch, jobs>>

\* confirmHandler, action == "cancel"
cancelHandler(r) ==
    /\ store' = updateRequestStatus(r, "cancelled")
    /\ UNCHANGED <<submitted, wt, ch, run, jobs>>

\* The handler without its check of the status read: every confirm starts a run.
alreadyHandled_unchecked(status) == FALSE

\* A confirm let through while the weather is still being fetched.
alreadyHandled_fetching(status) ==
    status \notin {"weather_fetching", "weather_fetched"}

\* confirmHandler: req.Status != "weather_fetched", the redirect without a run.
alreadyHandled(status) == status # "weather_fetched"

\* confirmHandler: getRequest and the check of the status read.
confirmRead(h, r, found) ==
    /\ ch[h].pc = "idle"
    /\ IF ~(found /\ r \in DOMAIN store)
       THEN ch' = [ch EXCEPT ![h] = [pc |-> "done", id |-> r, status |-> ""]]
       ELSE ch' = [ch EXCEPT ![h] =
                     [pc |-> IF alreadyHandled(store[r].status)
                             THEN "done" ELSE "write",
                      id |-> r, status |-> store[r].status]]
    /\ UNCHANGED <<store, submitted, wt, run, jobs>>

\* confirmHandler: updateRequestStatus(requestID, "confirmed") and
\* go processImageWithReplicate(requestID).
confirmStart(h) ==
    /\ ch[h].pc = "write"
    /\ store' = updateRequestStatus(ch[h].id, "confirmed")
    /\ run' = [run EXCEPT ![h] = [NoRun EXCEPT !.pc = "getreq", !.id = ch[h].id]]
    /\ ch' = [ch EXCEPT ![h].pc = "done"]
    /\ UNCHANGED <<submitted, wt, jobs>>

----------------------------------------------------------------------------
(* processImageWithReplicate *)

\* A failed run that starts over from the upload instead of returning.
RunEnd_startsOver(h, how) ==
    run' = [run EXCEPT ![h] = [NoRun EXCEPT !.pc = "upload", !.id = run[h].id,
                                            !.image = run[h].image,
                                            !.prompt = run[h].prompt]]

\* The goroutine returns: its locals are gone; `end` notes the return taken.
RunEnd(h, how) ==
    run' = [run EXCEPT ![h] = [NoRun EXCEPT !.pc = "done", !.id = run[h].id,
                                            !.end = how]]

\* uploadFileToReplicate: the URL of the uploaded file, or an error.
UploadOutcomes ==
    { [ok |-> TRUE, url |-> "https://api.replicate.com/v1/files/f1", err |-> ""],
      [ok |-> FALSE, url |-> "", err |-> "file upload failed: 401"] }

\* createReplicatePrediction: a prediction, or an error.
SubmitOutcomes ==
    { [ok |-> TRUE, err |-> ""],
      [ok |-> FALSE, err |-> "prediction creation failed: 422"] }

\* The id the provider gives the prediction a run creates.
predictionID(h) == "pred-" \o h

\* getRequest
RunGetRequest(h, found) ==
    /\ run[h].pc = "getreq"
    /\ IF ~(found /\ run[h].id \in DOMAIN store)
       THEN /\ store' = updateRequestError(run[h].id,
                                           "Failed to retrieve request details")
            /\ RunEnd(h, "getreq_failed")
       ELSE /\ UNCHANGED store
            /\ run' = [run EXCEPT ![h].pc = "upload",
                                  ![h].image = store[run[h].id].image_path,
                                  ![h].prompt = store[run[h].id].ai_prompt]
    /\ UNCHANGED <<submitted, wt, ch, jobs>>

\* The return after a failed upload left out: the run goes on to submit.
RunUpload_noReturn(h, up) ==
    /\ run[h].pc = "upload"
    /\ store' = IF ~up.ok
                THEN updateRequestError(run[h].id,
                                        "Failed to upload image: " \o up.err)
                ELSE store
    /\ run' = [run EXCEPT ![h].pc = "submit", ![h].url = up.url]
    /\ UNCHANGED <<submitted, wt, ch, jobs>>

\* uploadFileToReplicate(req.ImagePath)
RunUpload(h, up) ==
    /\ run[h].pc = "upload"
    /\ IF ~up.ok
       THEN /\ store' = updateRequestError(run[h].id,
                                           "Failed to upload image: " \o up.err)
            /\ RunEnd(h, "upload_failed")
       ELSE /\ UNCHANGED store
            /\ run' = [run EXCEPT ![h].pc = "submit", ![h].url = up.url]
    /\ UNCHANGED <<submitted, wt, ch, jobs>>

\* createReplicatePrediction(req.AIPrompt, imageURL), then
\* updateRequestPredictionID, whose error is logged and nothing more.
RunSubmit(h, sub, saved) ==
    /\ run[h].pc = "submit"
    /\ IF ~sub.ok
       THEN /\ store' = updateRequestError(run[h].id,
                                           "Failed to create prediction: " \o sub.err)
            /\ RunEnd(h, "submit_failed")
            /\ UNCHANGED jobs
       ELSE /\ jobs' = jobs \cup {[pid |-> predictionID(h), id |-> run[h].id,
                                   prompt |-> run[h].prompt,
                                   input_image |-> run[h].url]}
            /\ store' = IF saved
                        THEN updateRequestPredictionID(run[h].id, predictionID(h))
                        ELSE store
            /\ run' = [run EXCEPT ![h].pc = "poll", ![h].pid = predictionID(h),
                                  ![h].i = 0]
    /\ UNCHANGED <<submitted, wt, ch>>

\* The loop with <= for <: one poll too many.
loopContinues_inclusive(i) == i <= maxAttempts

\* for i := 0; i < maxAttempts; i++
loopContinues(i) == i < maxAttempts

\* A `continue` that skips the loop's post statement: the poll is not
\* counted as an attempt.
PollAgain_uncounted(h) == run' = [run EXCEPT ![h].polls = @ + 1]

\* The loop body up to the switch, for a poll that ends no run: `continue`
\* after a transport error, or a status the switch has no case for.
PollAgain(h) == run' = [run EXCEPT ![h].i = @ + 1, ![h].polls = @ + 1]

\* A return inside the loop body, after the poll.
PollEnd(h, how) == RunEnd(h, how)

\* getPredictionStatus returns an error.
PollTransportError(h) ==
    /\ run[h].pc = "poll"
    /\ loopContinues(run[h].i)
    /\ PollAgain(h)
    /\ UNCHANGED <<store, submitted, wt, ch, jobs>>

\* Status "starting" or "processing".
PollPending(h, status) ==
    /\ run[h].pc = "poll"
    /\ loopContinues(run[h].i)
    /\ status \in {"starting", "processing"}
    /\ PollAgain(h)
    /\ UNCHANGED <<store, submitted, wt, ch, jobs>>

\* case "succeeded": the type switch on status.Output.
extractOutputURL(output) ==
    IF output.kind = "string" THEN output.v[1]
    ELSE IF output.kind = "array" /\ Len(output.v) > 0 THEN output.v[1]
    ELSE ""

\* The result stored whatever the output and the download were.
PollSucceeded_unchecked(h, output, downloaded, saved) ==
    /\ run[h].pc = "poll"
    /\ loopContinues(run[h].i)
    /\ store' = IF saved
                THEN updateRequestResult(run[h].id, resultPath(run[h].id))
                ELSE store
    /\ PollEnd(h, "downloaded")
    /\ UNCHANGED <<submitted, wt, ch, jobs>>

\* case "succeeded"
PollSucceeded(h, output, downloaded, saved) ==
    /\ run[h].pc = "poll"
    /\ loopContinues(run[h].i)
    /\ IF extractOutputURL(output) = ""
       THEN /\ store' = updateRequestError(run[h].id,
                                           "No output URL in prediction result")
            /\ PollEnd(h, "no_output")
       ELSE IF ~downloaded
       THEN /\ store' = updateRequestError(run[h].id,
                            "Failed to download result: download failed with status: 404")
            /\ PollEnd(h, "download_failed")
       ELSE /\ store' = IF saved
                        THEN updateRequestResult(run[h].id, resultPath(run[h].id))
                        ELSE store
            /\ PollEnd(h, "downloaded")
    /\ UNCHANGED <<submitted, wt, ch, jobs>>

\* The provider's error text dropped: the generic message every time.
failureMessage_generic(errorText) == "Prediction failed"

\* case "failed": errorMsg := "Prediction failed", replaced by status.Error
\* when that is not empty.
failureMessage(errorText) ==
    IF errorText # "" THEN errorText ELSE "Prediction failed"

\* case "failed"
PollFailed(h, errorText) ==
    /\ run[h].pc = "poll"
    /\ loopContinues(run[h].i)
    /\ store' = updateRequestError(run[h].id, failureMessage(errorText))
    /\ PollEnd(h, "failed")
    /\ UNCHANGED <<submitted, wt, ch, jobs>>

\* A cancellation at the provider stored as a failure.
PollCanceled_asError(h) ==
    /\ run[h].pc = "poll"
    /\ loopContinues(run[h].i)
    /\ store' = updateRequestError(run[h].id, "Prediction canceled")
    /\ PollEnd(h, "canceled")
    /\ UNCHANGED <<submitted, wt, ch, jobs>>

\* case "canceled"
PollCanceled(h) ==
    /\ run[h].pc = "poll"
    /\ loopContinues(run[h].i)
    /\ store' = updateRequestStatus(run[h].id, "cancelled")
    /\ PollEnd(h, "canceled")
    /\ UNCHANGED <<submitted, wt, ch, jobs>>

\* After the loop: updateRequestError(requestID, "Image processing timeout")
RunTimeout(h) ==
    /\ run[h].pc = "poll"
    /\ ~loopContinues(run[h].i)
    /\ store' = updateRequestError(run[h].id, "Image processing timeout")
    /\ RunEnd(h, "timeout")
    /\ UNCHANGED <<submitted, wt, ch, jobs>>

----------------------------------------------------------------------------
(* The system *)

Locations == {"Paris"}

Next ==
    \/ \E r \in Ids, l \in Locations, saved \in BOOLEAN :
         submitHandler(r, l, saved) /\ UNCHANGED obs
    \/ \E r \in Ids, g \in GeoOutcomes, saved \in BOOLEAN :
         WtGeocode(r, g, saved) /\ UNCHANGED obs
    \/ \E r \in Ids : WtStatus(r) /\ UNCHANGED obs
    \/ \E r \in Ids, w \in WeatherOutcomes : WtWeather(r, w) /\ UNCHANGED obs
    \/ \E r \in Ids, found \in BOOLEAN : WtGetRequest(r, found) /\ UNCHANGED obs
    \/ \E r \in Ids, saved \in BOOLEAN : WtSave(r, saved) /\ UNCHANGED obs
    \/ \E r \in Ids : cancelHandler(r) /\ UNCHANGED obs
    \/ \E h \in Handlers, r \in Ids, found \in BOOLEAN :
         confirmRead(h, r, found) /\ UNCHANGED obs
    \/ \E h \in Handlers : confirmStart(h) /\ UNCHANGED obs
    \/ \E h \in Handlers, found \in BOOLEAN :
         RunGetRequest(h, found) /\ UNCHANGED obs
    \/ \E h \in Handlers, up \in UploadOutcomes : RunUpload(h, up) /\ UNCHANGED obs
    \/ \E h \in Handlers, sub \in SubmitOutcomes, saved \in BOOLEAN :
         RunSubmit(h, sub, saved) /\ UNCHANGED obs
    \/ \E h \in Handlers : PollTransportError(h) /\ UNCHANGED obs
    \/ \E h \in Handlers, st \in ProviderStatus :
         PollPending(h, st) /\ UNCHANGED obs
    \/ \E h \in Handlers, out \in Outputs :
         \E downloaded \in IF extractOutputURL(out) = "" THEN {FALSE} ELSE BOOLEAN :
           \E saved \in IF downloaded THEN BOOLEAN ELSE {FALSE} :
             PollSucceeded(h, out, downloaded, saved) /\ UNCHANGED obs
    \/ \E h \in Handlers, e \in ErrorTexts : PollFailed(h, e) /\ UNCHANGED obs
    \/ \E h \in Handlers : PollCanceled(h) /\ UNCHANGED obs
    \/ \E h \in Handlers : RunTimeout(h) /\ UNCHANGED obs

Spec == Init /\ [][Next]_vars

----------------------------------------------------------------------------
(* GET /image/{id} *)

\* Served for a request that is still being worked on.
imageReady_processing(status) == status \in {"completed", "processing"}

\* imageHandler: req.Status != "completed" answers "Image not ready".
imageReady(status) == status = "completed"

\* What imageHandler answers: the status it read (<<>> when getRequest
\* failed), the HTTP code, the error body, the file handed to ServeFile.
imageResponse(r, found, onDisk) ==
    IF ~(found /\ r \in DOMAIN store)
    THEN [fn |-> "imageHandler", id |-> r, read |-> <<>>, code |-> 404,
          body |-> "Request not found", file |-> ""]
    ELSE IF ~imageReady(store[r].status)
    THEN [fn |-> "imageHandler", id |-> r, read |-> <<store[r].status>>,
          code |-> 404, body |-> "Image not ready", file |-> ""]
    ELSE IF ~onDisk
    THEN [fn |-> "imageHandler", id |-> r, read |-> <<store[r].status>>,
          code |-> 404, body |-> "Image file not found", file |-> ""]
    ELSE [fn |-> "imageHandler", id |-> r, read |-> <<store[r].status>>,
          code |-> 200, body |-> "", file |-> store[r].result_image_path]

\* imageHandler: it writes nothing; onDisk is what os.Stat finds.
imageHandler(r, found, onDisk) ==
    /\ obs' = imageResponse(r, found, onDisk)
    /\ UNCHANGED <<store, submitted, wt, ch, run, jobs>>

----------------------------------------------------------------------------
(* GET /weather/{id}, GET /processing/{id}, GET /status/{id} *)

\* What weatherHandler answers: not found, the redirect to the processing
\* page, or the confirmation page of the row it read.
weatherResponse(r, found) ==
    IF ~(found /\ r \in DOMAIN store)
    THEN [fn |-> "weatherHandler", id |-> r, code |-> 404,
          body |-> "Request not found", page |-> <<>>]
    ELSE IF store[r].status # "weather_fetched"
    THEN [fn |-> "weatherHandler", id |-> r, code |-> 303,
          body |-> "/processing/" \o r, page |-> <<>>]
    ELSE [fn |-> "weatherHandler", id |-> r, code |-> 200,
          body |-> "confirm.html", page |-> <<store[r]>>]

\* The page shown only after the row has been marked as seen.
weatherHandler_marksSeen(r, found) ==
    /\ obs' = weatherResponse(r, found)
    /\ store' = updateRequestStatus(r, "weather_fetched")
    /\ UNCHANGED <<submitted, wt, ch, run, jobs>>

\* weatherHandler
weatherHandler(r, found) ==
    /\ obs' = weatherResponse(r, found)
    /\ UNCHANGED <<store, submitted, wt, ch, run, jobs>>

\* processingHandler: the page with the request id; the table is not read.
processingHandler(r) ==
    /\ obs' = [fn |-> "processingHandler", id |-> r, code |-> 200,
               body |-> "processing.html", page |-> <<r>>]
    /\ UNCHANGED <<store, submitted, wt, ch, run, jobs>>

\* statusHandler: the status and the error message of the row it read.
statusHandler(r, found) ==
    /\ obs' = IF ~(found /\ r \in DOMAIN store)
              THEN [fn |-> "statusHandler", id |-> r, code |-> 404,
                    body |-> "Request not found", page |-> <<>>]
              ELSE [fn |-> "statusHandler", id |-> r, code |-> 200,
                    body |-> "status.html",
                    page |-> <<store[r].status, r, store[r].error_message>>]
    /\ UNCHANGED <<store, submitted, wt, ch, run, jobs>>

----------------------------------------------------------------------------
(* One confirm request, with its polls and the image handler looked at *)

ObsHandlers == {"h1"}

\* The poll the run of h makes next: getPredictionStatus(prediction.ID) and
\* what it returns (err, or Status and Error of the prediction).
Polled(h, err, status, errorText) ==
    [fn |-> "getPredictionStatus", h |-> h, pid |-> run[h].pid,
     n |-> run[h].polls + 1, err |-> err, status |-> status,
     error |-> errorText]

NextObs ==
    \/ \E r \in Ids, l \in Locations, saved \in BOOLEAN :
         submitHandler(r, l, saved) /\ UNCHANGED obs
    \/ \E r \in Ids, g \in GeoOutcomes, saved \in BOOLEAN :
         WtGeocode(r, g, saved) /\ UNCHANGED obs
    \/ \E r \in Ids : WtStatus(r) /\ UNCHANGED obs
    \/ \E r \in Ids, w \in WeatherOutcomes : WtWeather(r, w) /\ UNCHANGED obs
    \/ \E r \in Ids, found \in BOOLEAN : WtGetRequest(r, found) /\ UNCHANGED obs
    \/ \E r \in Ids, saved \in BOOLEAN : WtSave(r, saved) /\ UNCHANGED obs
    \/ \E r \in Ids : cancelHandler(r) /\ UNCHANGED obs
    \/ \E h \in ObsHandlers, r \in Ids, found \in BOOLEAN :
         confirmRead(h, r, found) /\ UNCHANGED obs
    \/ \E h \in ObsHandlers : confirmStart(h) /\ UNCHANGED obs
    \/ \E h \in ObsHandlers, found \in BOOLEAN :
         RunGetRequest(h, found) /\ UNCHANGED obs
    \/ \E h \in ObsHandlers, up \in UploadOutcomes :
         RunUpload(h, up) /\ UNCHANGED obs
    \/ \E h \in ObsHandlers, sub \in SubmitOutcomes, saved \in BOOLEAN :
         RunSubmit(h, sub, saved) /\ UNCHANGED obs
    \/ \E h \in ObsHandlers :
         PollTransportError(h) /\ obs' = Polled(h, TRUE, "", "")
    \/ \E h \in ObsHandlers, st \in ProviderStatus :
         PollPending(h, st) /\ obs' = Polled(h, FALSE, st, "")
    \/ \E h \in ObsHandlers, out \in Outputs :
         \E downloaded \in IF extractOutputURL(out) = "" THEN {FALSE} ELSE BOOLEAN :
           \E saved \in IF downloaded THEN BOOLEAN ELSE {FALSE} :
             /\ PollSucceeded(h, out, downloaded, saved)
             /\ obs' = Polled(h, FALSE, "succeeded", "")
                         @@ [output |-> out, downloaded |-> downloaded,
                             saved |-> saved]
    \/ \E h \in ObsHandlers, e \in ErrorTexts :
         PollFailed(h, e) /\ obs' = Polled(h, FALSE, "failed", e)
    \/ \E h \in ObsHandlers :
         PollCanceled(h) /\ obs' = Polled(h, FALSE, "canceled", "")
    \/ \E h \in ObsHandlers : RunTimeout(h) /\ UNCHANGED obs
    \/ \E r \in Ids, found \in BOOLEAN, onDisk \in BOOLEAN :
         imageHandler(r, found, onDisk)
    \/ \E r \in Ids, found \in BOOLEAN : weatherHandler(r, found)
    \/ \E r \in Ids : processingHandler(r)
    \/ \E r \in Ids, found \in BOOLEAN : statusHandler(r, found)

SpecObs == Init /\ [][NextObs]_vars

\* The same with the goroutines scheduled: a run that can take a step takes
\* one in the end (every call it makes returns: the clients have timeouts,
\* the sleep is five seconds).
SpecLive ==
    /\ Init
    /\ [][NextObs]_vars
    /\ \A h \in ObsHandlers : WF_vars(NextObs /\ run'[h] # run[h])

----------------------------------------------------------------------------
(* One confirm request and the cancels, with the cancels kept on record *)

\* The ids a user's cancel has been applied to so far.
Cancelled(ids) == [fn |-> "cancelHandler", ids |-> ids]

InitCancel ==
    /\ store = [r \in {} |-> NewRow("", "", "", "")]
    /\ submitted = {}
    /\ wt = [r \in Ids |-> NoWeatherTask]
    /\ ch = [h \in Handlers |-> NoConfirm]
    /\ run = [h \in Handlers |-> NoRun]
    /\ jobs = {}
    /\ obs = Cancelled({})

NextCancel ==
    \/ \E r \in Ids, l \in Locations, saved \in BOOLEAN :
         submitHandler(r, l, saved) /\ UNCHANGED obs
    \/ \E r \in Ids, g \in GeoOutcomes, saved \in BOOLEAN :
         WtGeocode(r, g, saved) /\ UNCHANGED obs
    \/ \E r \in Ids : WtStatus(r) /\ UNCHANGED obs
    \/ \E r \in Ids, w \in WeatherOutcomes : WtWeather(r, w) /\ UNCHANGED obs
    \/ \E r \in Ids, found \in BOOLEAN : WtGetRequest(r, found) /\ UNCHANGED obs
    \/ \E r \in Ids, saved \in BOOLEAN : WtSave(r, saved) /\ UNCHANGED obs
    \/ \E r \in Ids :
         /\ r \in DOMAIN store
         /\ cancelHandler(r)
         /\ obs' = Cancelled(obs.ids \cup {r})
    \/ \E h \in ObsHandlers, r \in Ids, found \in BOOLEAN :
         confirmRead(h, r, found) /\ UNCHANGED obs
    \/ \E h \in ObsHandlers : confirmStart(h) /\ UNCHANGED obs
    \/ \E h \in ObsHandlers, found \in BOOLEAN :
         RunGetRequest(h, found) /\ UNCHANGED obs
    \/ \E h \in ObsHandlers, up \in UploadOutcomes :
         RunUpload(h, up) /\ UNCHANGED obs
    \/ \E h \in ObsHandlers, sub \in SubmitOutcomes, saved \in BOOLEAN :
         RunSubmit(h, sub, saved) /\ UNCHANGED obs
    \/ \E h \in ObsHandlers : PollTransportError(h) /\ UNCHANGED obs
    \/ \E h \in ObsHandlers, st \in ProviderStatus :
         PollPending(h, st) /\ UNCHANGED obs
    \/ \E h \in ObsHandlers, out \in Outputs :
         \E downloaded \in IF extractOutputURL(out) = "" THEN {FALSE} ELSE BOOLEAN :
           \E saved \in IF downloaded THEN BOOLEAN ELSE {FALSE} :
             PollSucceeded(h, out, downloaded, saved) /\ UNCHANGED obs
    \/ \E h \in ObsHandlers, e \in ErrorTexts : PollFailed(h, e) /\ UNCHANGED obs
    \/ \E h \in ObsHandlers : PollCanceled(h) /\ UNCHANGED obs
    \/ \E h \in ObsHandlers : RunTimeout(h) /\ UNCHANGED obs

SpecCancel == InitCancel /\ [][NextCancel]_vars

----------------------------------------------------------------------------
(* Two requests side by side, with the request of each step noted *)

PairIds == {"r1", "r2"}

\* The step is one of the pipeline of request r.
Acting(r) == [fn |-> "pipeline", id |-> r]

InitPair ==
    /\ store = [r \in {} |-> NewRow("", "", "", "")]
    /\ submitted = {}
    /\ wt = [r \in PairIds |-> NoWeatherTask]
    /\ ch = [h \in Handlers |-> NoConfirm]
    /\ run = [h \in Handlers |-> NoRun]
    /\ jobs = {}
    /\ obs = NoCall

NextPair ==
    \/ \E r \in PairIds, l \in Locations, saved \in BOOLEAN :
         submitHandler(r, l, saved) /\ obs' = Acting(r)
    \/ \E r \in PairIds, g \in GeoOutcomes, saved \in BOOLEAN :
         WtGeocode(r, g, saved) /\ obs' = Acting(r)
    \/ \E r \in PairIds : WtStatus(r) /\ obs' = Acting(r)
    \/ \E r \in PairIds, w \in WeatherOutcomes :
         WtWeather(r, w) /\ obs' = Acting(r)
    \/ \E r \in PairIds, found \in BOOLEAN :
         WtGetRequest(r, found) /\ obs' = Acting(r)
    \/ \E r \in PairIds, saved \in BOOLEAN : WtSave(r, saved) /\ obs' = Acting(r)
    \/ \E r \in PairIds : cancelHandler(r) /\ obs' = Acting(r)
    \/ \E h \in ObsHandlers, r \in PairIds, found \in BOOLEAN :
         confirmRead(h, r, found) /\ obs' = Acting(r)
    \/ \E h \in ObsHandlers : confirmStart(h) /\ obs' = Acting(ch[h].id)
    \/ \E h \in ObsHandlers, found \in BOOLEAN :
         RunGetRequest(h, found) /\ obs' = Acting(run[h].id)
    \/ \E h \in ObsHandlers, up \in UploadOutcomes :
         RunUpload(h, up) /\ obs' = Acting(run[h].id)
    \/ \E h \in ObsHandlers, sub \in SubmitOutcomes, saved \in BOOLEAN :
         RunSubmit(h, sub, saved) /\ obs' = Acting(run[h].id)
    \/ \E h \in ObsHandlers : PollTransportError(h) /\ obs' = Acting(run[h].id)
    \/ \E h \in ObsHandlers, st \in ProviderStatus :
         PollPending(h, st) /\ obs' = Acting(run[h].id)
    \/ \E h \in ObsHandlers, out \in Outputs :
         \E downloaded \in IF extractOutputURL(out) = "" THEN {FALSE} ELSE BOOLEAN :
           \E saved \in IF downloaded THEN BOOLEAN ELSE {FALSE} :
             /\ PollSucceeded(h, out, downloaded, saved)
             /\ obs' = Acting(run[h].id)
    \/ \E h \in ObsHandlers, e \in ErrorTexts :
         PollFailed(h, e) /\ obs' = Acting(run[h].id)
    \/ \E h \in ObsHandlers : PollCanceled(h) /\ obs' = Acting(run[h].id)
    \/ \E h \in ObsHandlers : RunTimeout(h) /\ obs' = Acting(run[h].id)

SpecPair == InitPair /\ [][NextPair]_vars

----------------------------------------------------------------------------
(* Time: an instant is a number of hours since 1970-01-01T00:00Z; the     *)
(* server's zone is taken to be UTC, and minutes and seconds are dropped.  *)

\* time.Date(y, m, d, 0, ...).Unix() in days; a day past the end of the
\* month runs on into the next month, as time.Date normalises it.
DaysFromCivil(y, m, d) ==
    LET yy == IF m <= 2 THEN y - 1 ELSE y
        era == yy \div 400
        yoe == yy - era * 400
        mp == IF m > 2 THEN m - 3 ELSE m + 9
        doy == (153 * mp + 2) \div 5 + d - 1
        doe == yoe * 365 + yoe \div 4 - yoe \div 100 + doy
    IN  era * 146097 + doe - 719468

\* Time.Date(): year, month and day of a day number.
CivilFromDays(z) ==
    LET zz == z + 719468
        era == zz \div 146097
        doe == zz - era * 146097
        yoe == (doe - doe \div 1460 + doe \div 36524 - doe \div 146096) \div 365
        doy == doe - (365 * yoe + yoe \div 4 - yoe \div 100)
        mp == (5 * doy + 2) \div 153
        d == doy - (153 * mp + 2) \div 5 + 1
        m == IF mp < 10 THEN mp + 3 ELSE mp - 9
    IN  [year |-> yoe + era * 400 + (IF m <= 2 THEN 1 ELSE 0),
         month |-> m, day |-> d]

\* time.Date(y, m, d, h, 0, 0, 0, time.UTC)
Instant(y, m, d, h) == DaysFromCivil(y, m, d) * 24 + h

\* A year of 366 days, whatever the calendar says.
AddDate_days366(t, years, months, days) == t + (years * 366 + days) * 24

\* Time.AddDate: the same clock time on the date years, months and days
\* away, normalised as time.Date does it.
AddDate(t, years, months, days) ==
    LET c == CivilFromDays(t \div 24)
        mm == (c.year + years) * 12 + (c.month - 1) + months
    IN  (DaysFromCivil(mm \div 12, (mm % 12) + 1, c.day) + days) * 24 + (t % 24)

\* Two decimal digits.
Pad2(n) == IF n < 10 THEN "0" \o ToString(n) ELSE ToString(n)

\* Time.Format("2006-01-02")
FormatDate(t) ==
    LET c == CivilFromDays(t \div 24)
    IN  ToString(c.year) \o "-" \o Pad2(c.month) \o "-" \o Pad2(c.day)

----------------------------------------------------------------------------
(* The weather provider's client *)

\* What a client function hands back: the value or the error, and the
\* requests it sent to the provider on the way.
Failed(err, calls) == [ok |-> FALSE, res |-> <<>>, err |-> err, calls |-> calls]
Returned(res, calls) == [ok |-> TRUE, res |-> <<res>>, err |-> "", calls |-> calls]

\* The answer to an HTTP request: sent is FALSE when http.Get failed.
Answer(sent, status, body) == [sent |-> sent, status |-> status, body |-> body]

RECURSIVE SumSeq(_)
\* The total of a sequence of numbers, as the range loop adds them up.
SumSeq(q) == IF q = <<>> THEN 0 ELSE q[1] + SumSeq(Tail(q))

\* int(x / y) of two floats holding whole numbers: towards zero.
TruncDiv(a, b) == IF a >= 0 THEN a \div b ELSE -((-a) \div b)

\* total / count in float64: the quotient itself, kept as a fraction.
Quotient(total, count) == [num |-> total, den |-> count]

\* item.Rain / item.Snow: a pointer, nil when the sample has no such entry.
oneH(entry) == IF entry = <<>> THEN 0 ELSE entry[1]

\* The rain of the hours averaged like the temperature.
rainAmount_mean(list) ==
    TruncDiv(SumSeq([i \in 1..Len(list) |-> oneH(list[i].Rain)]), Len(list))

\* rain += item.Rain.OneH for the samples that have a rain entry.
rainAmount(list) == SumSeq([i \in 1..Len(list) |-> oneH(list[i].Rain)])

\* The condition taken from the first sample of the list.
midpoint_first(list) == list[1]

\* histData.List[len(histData.List)/2]
midpoint(list) == list[Len(list) \div 2 + 1]

\* aggregateHistoricalData (amounts in tenths; an empty list gives the zero
\* WeatherData).
aggregateHistoricalData(list) ==
    IF Len(list) = 0
    THEN [Temp |-> 0, FeelsLike |-> 0, Pressure |-> 0, Humidity |-> 0,
          Clouds |-> 0, Visibility |-> 0, WindSpeed |-> 0, WindDeg |-> 0,
          Condition |-> "", Description |-> "", Rain |-> 0, Snow |-> 0]
    ELSE
    LET n == Len(list)
        total(f) == SumSeq([i \in 1..n |-> f[i]])
    IN  [Temp |-> Quotient(total([i \in 1..n |-> list[i].Temp]), n),
         FeelsLike |-> Quotient(total([i \in 1..n |-> list[i].FeelsLike]), n),
         Pressure |-> TruncDiv(total([i \in 1..n |-> list[i].Pressure]), n),
         Humidity |-> TruncDiv(total([i \in 1..n |-> list[i].Humidity]), n),
         Clouds |-> TruncDiv(total([i \in 1..n |-> list[i].Clouds]), n),
         Visibility |-> 10000,
         WindSpeed |-> Quotient(total([i \in 1..n |-> list[i].Speed]), n),
         WindDeg |-> 0,
         Condition |-> IF Len(midpoint(list).Weather) > 0
                       THEN midpoint(list).Weather[1].Main ELSE "",
         Description |-> IF Len(midpoint(list).Weather) > 0
                         THEN midpoint(list).Weather[1].Description ELSE "",
         Rain |-> rainAmount(list),
         Snow |-> total([i \in 1..n |-> oneH(list[i].Snow)])]

\* convertForecastToWeatherData
convertForecastToWeatherData(forecast) ==
    [Temp |-> forecast.TempDay, FeelsLike |-> forecast.FeelsLikeDay,
     Pressure |-> forecast.Pressure, Humidity |-> forecast.Humidity,
     Clouds |-> forecast.Clouds, Visibility |-> 10000,
     WindSpeed |-> forecast.Speed, WindDeg |-> forecast.Deg,
     Condition |-> IF Len(forecast.Weather) > 0
                   THEN forecast.Weather[1].Main ELSE "",
     Description |-> IF Len(forecast.Weather) > 0
                     THEN forecast.Weather[1].Description ELSE "",
     Rain |-> forecast.Rain, Snow |-> forecast.Snow]

\* getForecastWeather: cnt = daysAhead + 1, and the last entry of the list.
getForecastWeather(daysAhead, answer) ==
    LET calls == <<[api |-> "forecast", cnt |-> daysAhead + 1]>>
    IN  IF ~answer.sent THEN Failed("forecast API request failed", calls)
        ELSE IF answer.status # 200
        THEN Failed("forecast API error: " \o ToString(answer.status), calls)
        ELSE IF Len(answer.body) = 0
        THEN Failed("no forecast data available", calls)
        ELSE Returned(convertForecastToWeatherData(answer.body[Len(answer.body)]),
                      calls)

\* daysAhead := int(targetDate.Sub(now).Hours() / 24)
daysAhead(hours) == TruncDiv(hours, 24)

\* getHistoricalWeather: key is openWeatherAPIKey, now is time.Now(), hist and
\* fc are what the history and the forecast API answer when asked.
getHistoricalWeather(key, now, targetDate, hist, fc) ==
    LET oneYearAgo == AddDate(now, -1, 0, 0)
        calls == <<[api |-> "history", start |-> targetDate,
                    end |-> targetDate + 24]>>
    IN  IF key = "" THEN Failed("OpenWeather API key not configured", <<>>)
        ELSE IF targetDate < oneYearAgo
        THEN Failed("historical data only available for the past year (since "
                        \o FormatDate(oneYearAgo) \o ")", <<>>)
        ELSE IF targetDate > now
        THEN IF daysAhead(targetDate - now) > 16
             THEN Failed("forecast only available for up to 16 days ahead", <<>>)
             ELSE getForecastWeather(daysAhead(targetDate - now), fc)
        ELSE IF ~hist.sent THEN Failed("history API request failed", calls)
        ELSE IF hist.status # 200
        THEN Failed("history API error: " \o ToString(hist.status), calls)
        ELSE IF Len(hist.body) = 0
        THEN Failed("no historical data available for this date", calls)
        ELSE Returned(aggregateHistoricalData(hist.body), calls)

----------------------------------------------------------------------------
(* The geocoder's client *)

\* The characters location strings are made of here, with their code points:
\* the two ends of '0'..'9', their neighbours, and a letter.
CodePoint == [c \in {"/", "0", "9", ":", "a"} |->
                CASE c = "/" -> 47 [] c = "0" -> 48 [] c = "9" -> 57
                  [] c = ":" -> 58 [] c = "a" -> 97]

\* A zip code is what has nothing but digits in it.
isZipCode_allDigits(location) ==
    /\ Len(location) > 0
    /\ \A i \in 1..Len(location) :
         /\ CodePoint[SubSeq(location, i, i)] >= 48
         /\ CodePoint[SubSeq(location, i, i)] <= 57

\* geocodeLocation: the loop that sets isZipCode at the first character
\* in '0'..'9'.
isZipCode(location) ==
    \E i \in 1..Len(location) :
        /\ CodePoint[SubSeq(location, i, i)] >= 48
        /\ CodePoint[SubSeq(location, i, i)] <= 57

\* The zero GeocodingResult, what json.Unmarshal leaves of an object that
\* has none of the fields.
NoGeoResult == [Name |-> "", Country |-> "", Lat |-> 0, Lon |-> 0]

\* geocodeLocation: the body of an answer is a JSON object or array,
\* [kind |-> "object", v |-> <<fields>>] or [kind |-> "array", v |-> items].
geocodeLocation(key, location, answer) ==
    LET calls == <<[api |-> IF isZipCode(location) THEN "zip" ELSE "direct",
                    q |-> location]>>
    IN  IF key = "" THEN Failed("OpenWeather API key not configured", <<>>)
        ELSE IF ~answer.sent THEN Failed("geocoding API request failed", calls)
        ELSE IF answer.status # 200
        THEN Failed("geocoding API error: " \o ToString(answer.status), calls)
        ELSE IF isZipCode(location)
        THEN IF answer.body.kind # "object"
             THEN Failed("failed to parse zip code response", calls)
             ELSE Returned(answer.body.v[1], calls)
        ELSE IF answer.body.kind # "array"
        THEN Failed("failed to parse geocoding response", calls)
        ELSE IF Len(answer.body.v) = 0 THEN Failed("location not found", calls)
        ELSE Returned(answer.body.v[1], calls)

----------------------------------------------------------------------------
(* The clients and the prompt, one call at a time *)

\* The bounds of the inputs: hourly samples in a history answer, characters
\* in a location string, days a target date lies before and after today.
MaxSamples == 3
MaxLocLen == 3
MaxDaysBack == 367
MaxDaysAhead == 18

\* openWeatherAPIKey: unset or set.
Keys == {"", "k"}

\* Entries of HistoricalWeatherResponse.List (tenths, as in WeatherData).
HourClear ==
    [Temp |-> 250, FeelsLike |-> 240, Pressure |-> 1013, Humidity |-> 40,
     Clouds |-> 15, Speed |-> 30, Rain |-> <<>>, Snow |-> <<>>,
     Weather |-> <<[Main |-> "Clear", Description |-> "clear sky"]>>]
HourRain ==
    [Temp |-> 121, FeelsLike |-> 110, Pressure |-> 1002, Humidity |-> 85,
     Clouds |-> 90, Speed |-> 62, Rain |-> <<25>>, Snow |-> <<>>,
     Weather |-> <<[Main |-> "Rain", Description |-> "moderate rain"],
                   [Main |-> "Mist", Description |-> "mist"]>>]
HourSnow ==
    [Temp |-> -35, FeelsLike |-> -80, Pressure |-> 1020, Humidity |-> 70,
     Clouds |-> 100, Speed |-> 105, Rain |-> <<0>>, Snow |-> <<12>>,
     Weather |-> <<[Main |-> "Snow", Description |-> "light snow"]>>]
HourBare ==
    [Temp |-> 100, FeelsLike |-> 95, Pressure |-> 1009, Humidity |-> 55,
     Clouds |-> 40, Speed |-> 0, Rain |-> <<4>>, Snow |-> <<>>,
     Weather |-> <<>>]
HourlySamples == {HourClear, HourRain, HourSnow, HourBare}

\* The lists of at most n elements of S.
SeqsUpTo(S, n) == UNION {[1..k -> S] : k \in 0..n}

HourlyLists == SeqsUpTo(HourlySamples, MaxSamples)

\* What the history API answers.
HistAnswers ==
    {Answer(FALSE, 0, <<>>), Answer(TRUE, 401, <<>>), Answer(TRUE, 200, <<>>),
     Answer(TRUE, 200, <<HourClear, HourRain>>)}

\* Entry k of ForecastResponse.List: the day k days from today.
ForecastDay(k) ==
    [Dt |-> k, TempDay |-> 150 + k, FeelsLikeDay |-> 140 + k,
     Pressure |-> 1000 + k, Humidity |-> 50, Speed |-> 30 + k, Deg |-> 180,
     Clouds |-> 5 * k, Rain |-> 0, Snow |-> 0,
     Weather |-> <<[Main |-> "Clouds", Description |-> "few clouds"]>>]

\* What the forecast API answers: an error, or a list of days from today on.
FcAnswers ==
    {Answer(FALSE, 0, <<>>), Answer(TRUE, 401, <<>>)}
      \cup {Answer(TRUE, 200, [k \in 1..n |-> ForecastDay(k - 1)]) :
              n \in {0, 1, 16, 17}}

\* time.Now(): around a 29 February, and in a year without one.
Nows ==
    UNION {{Instant(2024, 2, 29, h), Instant(2024, 3, 1, h),
            Instant(2025, 6, 15, h)} : h \in {0, 12, 23}}

\* The target dates of the form (time.Parse("2006-01-02", ...): midnight
\* UTC), as days from today: around a year back, around today, around the
\* forecast horizon.
TargetOffsets ==
    {-d : d \in (MaxDaysBack - 4)..MaxDaysBack} \cup {-1, 0, 1}
      \cup (MaxDaysAhead - 4)..MaxDaysAhead

WeatherInputs ==
    {in \in [key : Keys, now : Nows, offset : TargetOffsets,
             hist : HistAnswers, fc : FcAnswers] :
        IF in.offset > 0 THEN in.hist = Answer(TRUE, 200, <<>>)
        ELSE in.fc = Answer(TRUE, 200, <<>>)}

RECURSIVE Strings(_)
\* The strings of at most n characters.
Strings(n) ==
    IF n = 0 THEN {""}
    ELSE LET shorter == Strings(n - 1)
         IN  shorter \cup {s \o c : s \in shorter, c \in DOMAIN CodePoint}

\* What the geocoding API answers: no answer, an error status, an object
\* (with or without the fields), an array (with or without an element).
GeoAnswers ==
    {Answer(FALSE, 0, [kind |-> "none", v |-> <<>>]),
     Answer(TRUE, 404, [kind |-> "object", v |-> <<NoGeoResult>>]),
     Answer(TRUE, 200, [kind |-> "object", v |-> <<GeoResult>>]),
     Answer(TRUE, 200, [kind |-> "object", v |-> <<NoGeoResult>>]),
     Answer(TRUE, 200, [kind |-> "array", v |-> <<GeoResult>>]),
     Answer(TRUE, 200, [kind |-> "array", v |-> <<>>])}

GeoInputs ==
    [key : Keys, location : Strings(MaxLocLen), answer : GeoAnswers]

\* WeatherData summaries: every combination of rain, snow, visibility and
\* wind around their bands, and every temperature and cloud band edge.
Summary(temp, clouds, vis, wind, rain, snow) ==
    [Temp |-> temp, FeelsLike |-> temp - 10, Pressure |-> 1013,
     Humidity |-> 40, Clouds |-> clouds, Visibility |-> vis,
     WindSpeed |-> wind, WindDeg |-> 0, Condition |-> "Clouds",
     Description |-> "few clouds", Rain |-> rain, Snow |-> snow]

Summaries ==
    {Summary(250, 15, vis, wind, rain, snow) :
        vis \in {500, 3000, 10000}, wind \in {0, 50, 51, 100, 101},
        rain \in {-1, 0, 1, 24, 25, 99, 100}, snow \in {-1, 0, 24, 25, 100}}
      \cup {Summary(temp, clouds, 10000, 30, 0, 0) :
              temp \in {-1, 0, 99, 100, 199, 200, 279, 280},
              clouds \in {19, 20, 49, 50, 79, 80}}

PromptInputs == [weatherData : Summaries, locationName : {"Paris, FR"}]

\* A call that has been given its arguments and has not returned.
Call(fn, in) == [fn |-> fn, in |-> in, out |-> <<>>]

InitFn ==
    /\ store = [r \in {} |-> NewRow("", "", "", "")]
    /\ submitted = {}
    /\ wt = [r \in Ids |-> NoWeatherTask]
    /\ ch = [h \in Handlers |-> NoConfirm]
    /\ run = [h \in Handlers |-> NoRun]
    /\ jobs = {}
    /\ obs \in {Call("geocodeLocation", in) : in \in GeoInputs}
         \cup {Call("getHistoricalWeather", in) : in \in WeatherInputs}
         \cup {Call("aggregateHistoricalData", [list |-> l]) : l \in HourlyLists}
         \cup {Call("generatePrompt", in) : in \in PromptInputs}

\* The call returns.
Return(fn, out) ==
    /\ obs.fn = fn
    /\ obs.out = <<>>
    /\ obs' = [obs EXCEPT !.out = <<out>>]
    /\ UNCHANGED <<store, submitted, wt, ch, run, jobs>>

\* The target date of a call of getHistoricalWeather.
TargetDate(in) == ((in.now \div 24) + in.offset) * 24

NextFn ==
    \/ Return("geocodeLocation",
              geocodeLocation(obs.in.key, obs.in.location, obs.in.answer))
    \/ Return("getHistoricalWeather",
              getHistoricalWeather(obs.in.key, obs.in.now, TargetDate(obs.in),
                                   obs.in.hist, obs.in.fc))
    \/ Return("aggregateHistoricalData", aggregateHistoricalData(obs.in.list))
    \/ Return("generatePrompt",
              generatePrompt(obs.in.weatherData, obs.in.locationName))

SpecFn == InitFn /\ [][NextFn]_vars

----------------------------------------------------------------------------
(* The transform provider's client *)

\* uploadFileToReplicate: token is replicateAPIToken, opened tells whether
\* os.Open found the file, answer is what the files API answers.
uploadFileToReplicate(token, opened, answer) ==
    LET calls == <<[api |-> "files"]>>
    IN  IF token = "" THEN Failed("REPLICATE_API_TOKEN not set", <<>>)
        ELSE IF ~opened THEN Failed("failed to open file", <<>>)
        ELSE IF ~answer.sent THEN Failed("file upload request failed", calls)
        ELSE IF answer.status \notin {201, 200}
        THEN Failed("file upload failed: " \o ToString(answer.status), calls)
        ELSE IF answer.body.kind # "object"
        THEN Failed("failed to parse upload response", calls)
        ELSE Returned(answer.body.v[1], calls)

\* createReplicatePrediction
createReplicatePrediction(token, prompt, imageURL, answer) ==
    LET calls == <<[api |-> "predictions", prompt |-> prompt,
                    input_image |-> imageURL]>>
    IN  IF token = "" THEN Failed("REPLICATE_API_TOKEN not set", <<>>)
        ELSE IF ~answer.sent THEN Failed("prediction request failed", calls)
        ELSE IF answer.status \notin {201, 200}
        THEN Failed("prediction creation failed: " \o ToString(answer.status),
                    calls)
        ELSE IF answer.body.kind # "object"
        THEN Failed("failed to parse response", calls)
        ELSE Returned(answer.body.v[1], calls)

\* A status check that asks the provider whatever the token.
getPredictionStatus_noTokenCheck(token, pid, answer) ==
    LET calls == <<[api |-> "prediction", pid |-> pid]>>
    IN  IF ~answer.sent THEN Failed("status check failed", calls)
        ELSE IF answer.status # 200
        THEN Failed("status check failed: " \o ToString(answer.status), calls)
        ELSE IF answer.body.kind # "object"
        THEN Failed("failed to parse response", calls)
        ELSE Returned(answer.body.v[1], calls)

\* getPredictionStatus
getPredictionStatus(token, pid, answer) ==
    LET calls == <<[api |-> "prediction", pid |-> pid]>>
    IN  IF token = "" THEN Failed("REPLICATE_API_TOKEN not set", <<>>)
        ELSE IF ~answer.sent THEN Failed("status check failed", calls)
        ELSE IF answer.status # 200
        THEN Failed("status check failed: " \o ToString(answer.status), calls)
        ELSE IF answer.body.kind # "object"
        THEN Failed("failed to parse response", calls)
        ELSE Returned(answer.body.v[1], calls)

----------------------------------------------------------------------------
(* The pipeline with its clients: every outcome of an outside call is what
   the client makes of the credential and of the provider's answer *)

\* replicateAPIToken: unset or set.
Tokens == {"", "t"}

\* The location strings of the form: free text, and one with digits.
ClientLocations == {"aa", "90"}

\* A body that is a JSON object of the fields v, or no JSON at all.
Object(v) == [kind |-> "object", v |-> <<v>>]
NotJSON == [kind |-> "text", v |-> <<>>]

\* What the files API answers.
UploadAnswers ==
    {Answer(FALSE, 0, NotJSON), Answer(TRUE, 401, NotJSON),
     Answer(TRUE, 201, Object("https://api.replicate.com/v1/files/f1"))}

\* ReplicatePrediction
Prediction(id, status, output, error) ==
    [ID |-> id, Status |-> status, Output |-> output, Error |-> error]

NoOutput == [kind |-> "null", v |-> <<>>]

\* What the predictions API answers to a new prediction.
SubmitAnswers ==
    {Answer(FALSE, 0, NotJSON), Answer(TRUE, 422, NotJSON),
     Answer(TRUE, 201, Object(Prediction("pred", "starting", NoOutput, "")))}

\* What the predictions API answers to a status check.
PollAnswers ==
    {Answer(FALSE, 0, NotJSON), Answer(TRUE, 200, NotJSON)}
      \cup {Answer(TRUE, 200, Object(Prediction("pred", st, NoOutput, ""))) :
              st \in {"processing", "canceled"}}
      \cup {Answer(TRUE, 200, Object(Prediction("pred", "succeeded", out, ""))) :
              out \in Outputs}
      \cup {Answer(TRUE, 200, Object(Prediction("pred", "failed", NoOutput, e))) :
              e \in ErrorTexts}

\* What the geocoding API answers to the pipeline.
ClientGeoAnswers ==
    {Answer(TRUE, 200, [kind |-> "object", v |-> <<GeoResult>>]),
     Answer(TRUE, 200, [kind |-> "array", v |-> <<GeoResult>>]),
     Answer(TRUE, 200, [kind |-> "array", v |-> <<>>])}

\* The clock and the date of the form when the weather is fetched, and what
\* the weather APIs answer: a day back and a day ahead.
ClientWeatherInputs ==
    {in \in [now : {Instant(2025, 6, 15, 12)}, offset : {-1, 1},
             hist : {Answer(FALSE, 0, <<>>), Answer(TRUE, 200, <<>>),
                     Answer(TRUE, 200, <<HourRain>>)},
             fc : {Answer(TRUE, 401, <<>>),
                   Answer(TRUE, 200, <<ForecastDay(0), ForecastDay(1)>>)}] :
        IF in.offset > 0 THEN in.hist = Answer(TRUE, 200, <<>>)
        ELSE in.fc = Answer(TRUE, 401, <<>>)}

\* The float64 means of an aggregated summary as tenths (the lists here have
\* means that are whole tenths).
inTenths(wd) ==
    [wd EXCEPT !.Temp = TruncDiv(@.num, @.den),
               !.FeelsLike = TruncDiv(@.num, @.den),
               !.WindSpeed = TruncDiv(@.num, @.den)]

\* What processWeatherRequest gets from getHistoricalWeather.
fetched(in, out) ==
    IF out.ok /\ in.offset <= 0
    THEN [out EXCEPT !.res = <<inTenths(out.res[1])>>]
    ELSE out

\* The process: its two credentials, and no call made yet.
Env(key, token) ==
    [fn |-> "none", alone |-> FALSE, key |-> key, token |-> token]

\* A client has been called by the pipeline and has returned.
Called(fn, in, out) ==
    [fn |-> fn, alone |-> FALSE, key |-> obs.key, token |-> obs.token,
     in |-> in, out |-> <<out>>]

\* A client called by itself, the credential being unset.
Alone(fn, in) ==
    Call(fn, in) @@ [alone |-> TRUE, key |-> "", token |-> ""]

InitClients ==
    /\ store = [r \in {} |-> NewRow("", "", "", "")]
    /\ submitted = {}
    /\ wt = [r \in Ids |-> NoWeatherTask]
    /\ ch = [h \in Handlers |-> NoConfirm]
    /\ run = [h \in Handlers |-> NoRun]
    /\ jobs = {}
    /\ obs \in {Env(k, t) : k \in Keys, t \in Tokens}
         \cup {Alone("getHistoricalWeather", in) : in \in ClientWeatherInputs}
         \cup {Alone("createReplicatePrediction", [answer |-> a]) :
                 a \in SubmitAnswers}
         \cup {Alone("getPredictionStatus", [answer |-> a]) : a \in PollAnswers}

\* The prediction a status check has returned.
polled(h, a) == getPredictionStatus(obs.token, run[h].pid, a)

NextClients ==
    \/ Return("getHistoricalWeather",
              getHistoricalWeather(obs.key, obs.in.now, TargetDate(obs.in),
                                   obs.in.hist, obs.in.fc))
    \/ Return("createReplicatePrediction",
              createReplicatePrediction(obs.token, "", "", obs.in.answer))
    \/ Return("getPredictionStatus",
              getPredictionStatus(obs.token, "pred", obs.in.answer))
    \/ \E r \in Ids, l \in ClientLocations, saved \in BOOLEAN :
         ~obs.alone /\ submitHandler(r, l, saved) /\ UNCHANGED obs
    \/ \E r \in Ids, a \in ClientGeoAnswers, saved \in BOOLEAN :
         /\ ~obs.alone
         /\ WtGeocode(r, geocodeLocation(obs.key, wt[r].location, a), saved)
         /\ obs' = Called("geocodeLocation",
                          [location |-> wt[r].location, answer |-> a],
                          geocodeLocation(obs.key, wt[r].location, a))
    \/ \E r \in Ids : ~obs.alone /\ WtStatus(r) /\ UNCHANGED obs
    \/ \E r \in Ids, in \in ClientWeatherInputs :
         /\ ~obs.alone
         /\ WtWeather(r, fetched(in, getHistoricalWeather(obs.key, in.now,
                                       TargetDate(in), in.hist, in.fc)))
         /\ obs' = Called("getHistoricalWeather", in,
                          getHistoricalWeather(obs.key, in.now, TargetDate(in),
                                               in.hist, in.fc))
    \/ \E r \in Ids, found \in BOOLEAN :
         ~obs.alone /\ WtGetRequest(r, found) /\ UNCHANGED obs
    \/ \E r \in Ids, saved \in BOOLEAN :
         ~obs.alone /\ WtSave(r, saved) /\ UNCHANGED obs
    \/ \E r \in Ids : ~obs.alone /\ cancelHandler(r) /\ UNCHANGED obs
    \/ \E h \in ObsHandlers, r \in Ids, found \in BOOLEAN :
         ~obs.alone /\ confirmRead(h, r, found) /\ UNCHANGED obs
    \/ \E h \in ObsHandlers : ~obs.alone /\ confirmStart(h) /\ UNCHANGED obs
    \/ \E h \in ObsHandlers, found \in BOOLEAN :
         ~obs.alone /\ RunGetRequest(h, found) /\ UNCHANGED obs
    \/ \E h \in ObsHandlers, opened \in BOOLEAN, a \in UploadAnswers :
         LET up == uploadFileToReplicate(obs.token, opened, a)
         IN  /\ ~obs.alone
             /\ RunUpload(h, [ok |-> up.ok, err |-> up.err,
                              url |-> IF up.ok THEN up.res[1] ELSE ""])
             /\ obs' = Called("uploadFileToReplicate",
                              [opened |-> opened, answer |-> a], up)
    \/ \E h \in ObsHandlers, a \in SubmitAnswers, saved \in BOOLEAN :
         LET sub == createReplicatePrediction(obs.token, run[h].prompt,
                                              run[h].url, a)
         IN  /\ ~obs.alone
             /\ RunSubmit(h, [ok |-> sub.ok, err |-> sub.err], saved)
             /\ obs' = Called("createReplicatePrediction", [answer |-> a], sub)
    \/ \E h \in ObsHandlers, a \in PollAnswers :
         /\ ~obs.alone
         /\ ~polled(h, a).ok
         /\ PollTransportError(h)
         /\ obs' = Called("getPredictionStatus", [answer |-> a], polled(h, a))
    \/ \E h \in ObsHandlers, a \in PollAnswers :
         /\ ~obs.alone
         /\ polled(h, a).ok
         /\ PollPending(h, polled(h, a).res[1].Status)
         /\ obs' = Called("getPredictionStatus", [answer |-> a], polled(h, a))
    \/ \E h \in ObsHandlers, a \in PollAnswers :
         /\ ~obs.alone
         /\ polled(h, a).ok
         /\ polled(h, a).res[1].Status = "succeeded"
         /\ \E downloaded \in IF extractOutputURL(polled(h, a).res[1].Output) = ""
                              THEN {FALSE} ELSE BOOLEAN :
              \E saved \in IF downloaded THEN BOOLEAN ELSE {FALSE} :
                PollSucceeded(h, polled(h, a).res[1].Output, downloaded, saved)
         /\ obs' = Called("getPredictionStatus", [answer |-> a], polled(h, a))
    \/ \E h \in ObsHandlers, a \in PollAnswers :
         /\ ~obs.alone
         /\ polled(h, a).ok
         /\ polled(h, a).res[1].Status = "failed"
         /\ PollFailed(h, polled(h, a).res[1].Error)
         /\ obs' = Called("getPredictionStatus", [answer |-> a], polled(h, a))
    \/ \E h \in ObsHandlers, a \in PollAnswers :
         /\ ~obs.alone
         /\ polled(h, a).ok
         /\ polled(h, a).res[1].Status = "canceled"
         /\ PollCanceled(h)
         /\ obs' = Called("getPredictionStatus", [answer |-> a], polled(h, a))
    \/ \E h \in ObsHandlers : ~obs.alone /\ RunTimeout(h) /\ UNCHANGED obs

SpecClients == InitClients /\ [][NextClients]_vars

----------------------------------------------------------------------------
(* Properties *)

Forward == <<"pending", "geocoding", "weather_fetching", "weather_fetched",
             "confirmed", "processing", "completed">>

IsForward(status) == \E k \in 1..Len(Forward) : Forward[k] = status

Rank(status) == CHOOSE k \in 1..Len(Forward) : Forward[k] = status

Terminal == {"completed", "error", "cancelled"}

RunsStarted(r) == Cardinality({h \in Handlers : run[h].pc # "none" /\ run[h].id = r})

JobsSubmitted(r) == Cardinality({j \in jobs : j.id = r})

\* C1: whatever the number and the interleaving of the confirms on a request
\* id, at most one processing run is started for it and no more than one
\* transform job is submitted for it.
C1_SingleRunSingleJob ==
    \A r \in Ids : RunsStarted(r) <= 1 /\ JobsSubmitted(r) <= 1

\* C2: every change of a stored status is a step forward along pending,
\* geocoding, weather_fetching, weather_fetched, confirmed, processing,
\* completed, or a step into error or cancelled.
C2_StatusOnlyForward ==
    [][\A r \in DOMAIN store :
         store'[r].status # store[r].status =>
            \/ store'[r].status \in {"error", "cancelled"}
            \/ /\ IsForward(store[r].status)
               /\ IsForward(store'[r].status)
               /\ Rank(store'[r].status) > Rank(store[r].status)]_vars

\* C3: once a stored status is completed, error or cancelled, no step changes it.
C3_TerminalIsFinal ==
    [][\A r \in DOMAIN store :
         store[r].status \in Terminal => store'[r].status = store[r].status]_vars

\* C4: a status becomes cancelled only by the user's cancel action, taken
\* while the stored status is weather_fetched.
C4_CancelledOnlyFromWeatherFetched ==
    [][\A r \in DOMAIN store :
         store'[r].status = "cancelled" /\ store[r].status # "cancelled" =>
            store[r].status = "weather_fetched" /\ cancelHandler(r)]_vars

\* C5: a confirm that reads a stored status other than weather_fetched is a
\* no-op: the step that reads it changes no row, starts no run and submits no
\* job, and the handler ends there, so that it never writes and the provider
\* never sees an upload or a job of its run.
C5_ConfirmElsewhereIsNoOp ==
    [][\A h \in Handlers :
         /\ ch[h].pc = "idle" /\ ch'[h].pc # "idle"
              /\ ch'[h].status # "weather_fetched"
            => UNCHANGED <<store, run, jobs>>
         /\ ch'[h].pc # "idle" /\ ch'[h].status # "weather_fetched"
            => /\ ch'[h].pc = "done"
               /\ run'[h].pc = "none"
               /\ \A j \in jobs' : j.pid # predictionID(h)]_vars

\* C5 witness: a confirm that read "processing" has ended without a run.
C5_Witness ==
    \E h \in Handlers :
        ch[h].pc = "done" /\ ch[h].status = "processing" /\ run[h].pc = "none"

\* C6: a row whose result image path is not empty has status completed.
C6_ResultOnlyWhenCompleted ==
    \A r \in DOMAIN store :
        store[r].result_image_path # "" => store[r].status = "completed"

\* C7: a row whose error_message is not empty has status error.
C7_ErrorMessageOnlyWhenError ==
    \A r \in DOMAIN store :
        store[r].error_message # "" => store[r].status = "error"

WeatherTaskFailures ==
    {"geocode_failed", "geocode_save_failed", "weather_failed", "getreq_failed",
     "save_failed"}

RunStepFailures == {"upload_failed", "submit_failed", "download_failed"}

\* C8: when a step of either background task fails (geocoding, persisting the
\* geocode result, weather fetch, re-reading the request, persisting the
\* weather, upload, submit, download), the task ends with the row stored as
\* status error with a non-empty error_message.
C8_FailureEndsInError ==
    [][/\ \A r \in Ids :
            wt[r].pc # "done" /\ wt'[r].pc = "done"
              /\ wt'[r].end \in WeatherTaskFailures
            => /\ r \in DOMAIN store'
               /\ store'[r].status = "error"
               /\ store'[r].error_message # ""
       /\ \A h \in Handlers :
            run[h].pc # "done" /\ run'[h].pc = "done"
              /\ run'[h].end \in RunStepFailures
            => /\ run[h].id \in DOMAIN store'
               /\ store'[run[h].id].status = "error"
               /\ store'[run[h].id].error_message # ""]_vars

\* C9: when the polls 1..k-1 of a run return no terminal status and poll k
\* (1 <= k <= 120) returns succeeded with an output URL whose download
\* succeeds, the run ends with the row in status completed and the result
\* path stored.
C9_SucceededEndsCompleted ==
    [][\A h \in Handlers :
         run[h].pc = "poll" /\ run[h].polls + 1 \in 1..120
           /\ run'[h].pc = "done" /\ run'[h].end = "downloaded"
         => /\ store'[run[h].id].status = "completed"
            /\ store'[run[h].id].result_image_path = resultPath(run[h].id)]_vars

\* C10: a run none of whose polls returns a terminal status polls exactly 120
\* times, never a 121st time, and then stores status error with the timeout
\* message: no run ever counts more than 120 polls, a run that has polled 120
\* times can only go on to the timeout, and the timeout comes after exactly
\* 120 polls and writes the error.
C10_TimeoutAfter120Polls ==
    [][\A h \in Handlers :
         /\ run'[h].polls <= 120
         /\ run[h].pc = "poll" /\ run[h].polls = 120 /\ run'[h] # run[h]
            => run'[h].pc = "done" /\ run'[h].end = "timeout"
         /\ run[h].pc = "poll" /\ run'[h].pc = "done" /\ run'[h].end = "timeout"
            => /\ run[h].polls = 120
               /\ store'[run[h].id].status = "error"
               /\ store'[run[h].id].error_message = "Image processing timeout"]_vars

\* C10 witness: a run has ended by the timeout and the row holds its message.
C10_Witness ==
    \E h \in Handlers :
        /\ run[h].pc = "done" /\ run[h].end = "timeout"
        /\ store[run[h].id].status = "error"
        /\ store[run[h].id].error_message = "Image processing timeout"

\* The step is a poll of the run of h, and obs' is what it returned.
IsPoll(h) ==
    /\ obs' # obs
    /\ obs'.fn = "getPredictionStatus"
    /\ obs'.h = h

\* C11: a poll that fails at transport level does not end the run and does
\* not change the request record: the loop goes on to the next attempt, and
\* the failed poll counts as one of the 120 attempts (the loop counter moves
\* on by one, and the poll's number within the run is never above 120).
C11_TransportErrorGoesOn ==
    [][\A h \in Handlers :
         IsPoll(h) /\ obs'.err
         => /\ store' = store
            /\ run'[h].pc = "poll"
            /\ run'[h].i = run[h].i + 1
            /\ run'[h].polls = obs'.n
            /\ obs'.n <= 120]_vars

\* C11 witness: the poll before the last of a run has failed at transport
\* level; the run is still in its loop with one attempt left and the row is
\* as the confirm left it.
C11_Witness ==
    /\ obs.fn = "getPredictionStatus"
    /\ obs.err
    /\ obs.n = maxAttempts - 1
    /\ run[obs.h].pc = "poll"
    /\ run[obs.h].i = maxAttempts - 1
    /\ loopContinues(run[obs.h].i)
    /\ store[run[obs.h].id].status = "confirmed"

\* C12: when a poll returns provider status failed, the run stops polling and
\* stores status error with error_message equal to the provider's error text
\* when that text is non-empty, and equal to the fixed generic message when
\* it is empty.
C12_FailedStoresProviderError ==
    [][\A h \in Handlers :
         IsPoll(h) /\ ~obs'.err /\ obs'.status = "failed"
         => /\ run'[h].pc = "done"
            /\ store'[run[h].id].status = "error"
            /\ obs'.error # ""
               => store'[run[h].id].error_message = obs'.error
            /\ obs'.error = ""
               => store'[run[h].id].error_message = "Prediction failed"]_vars

\* C12 witness: a poll returned failed with an error text, the run is over
\* and the row holds that text.
C12_Witness ==
    /\ obs.fn = "getPredictionStatus"
    /\ ~obs.err
    /\ obs.status = "failed"
    /\ obs.error = "NSFW content detected"
    /\ run[obs.h].pc = "done"
    /\ store[run[obs.h].id].status = "error"
    /\ store[run[obs.h].id].error_message = "NSFW content detected"

\* C13: the result image of a request is served only when the status read by
\* the image handler is completed; for every other status (and for a request
\* that cannot be read) the handler answers not-found and serves no file.
C13_ImageOnlyWhenCompleted ==
    obs.fn = "imageHandler"
    => /\ obs.file # "" => obs.read = <<"completed">> /\ obs.code = 200
       /\ obs.read # <<"completed">> => obs.code = 404 /\ obs.file = ""

\* C13 witness: the image handler read completed and served the result file
\* of the request.
C13_Witness ==
    /\ obs.fn = "imageHandler"
    /\ obs.read = <<"completed">>
    /\ obs.code = 200
    /\ obs.file = resultPath(obs.id)

\* A call of fn has returned.
Returns(fn) == obs.fn = fn /\ obs.out # <<>>

\* s begins with prefix.
HasPrefix(s, prefix) ==
    Len(s) >= Len(prefix) /\ SubSeq(s, 1, Len(prefix)) = prefix

\* The call of getHistoricalWeather failed with this error before any
\* request to the provider.
RejectedWith(prefix) ==
    /\ ~obs.out[1].ok
    /\ HasPrefix(obs.out[1].err, prefix)
    /\ obs.out[1].calls = <<>>

PastYearError == "historical data only available for the past year"
HorizonError == "forecast only available for up to 16 days ahead"

\* a comes before b, field by field.
RECURSIVE LexLess(_, _)
LexLess(a, b) ==
    /\ a # <<>>
    /\ \/ a[1] < b[1]
       \/ a[1] = b[1] /\ LexLess(Tail(a), Tail(b))

\* The target date (its midnight) comes before the month, day and clock
\* time of now in the year before.
BeforeOneYearAgo(now, targetDate) ==
    LET n == CivilFromDays(now \div 24)
        t == CivilFromDays(targetDate \div 24)
    IN  LexLess(<<t.year, t.month, t.day, 0>>,
                <<n.year - 1, n.month, n.day, now % 24>>)

\* C14 as stated: for every target date more than 365 days before the current
\* time, the weather fetch (with its key configured) fails with the
\* out-of-range error and calls neither the history nor the forecast source.
C14_Past365DaysRejected ==
    /\ Returns("getHistoricalWeather")
    /\ obs.in.key # ""
    /\ obs.in.now - TargetDate(obs.in) > 365 * 24
    => RejectedWith(PastYearError)

\* C14: for every target date that comes before the same month, day and clock
\* time of the previous year (365 days back, 366 when a 29 February lies in
\* between), and so for every target date more than 366 days before the
\* current time, the weather fetch (with its key configured) fails with the
\* out-of-range error and calls neither the history nor the forecast source.
C14_PastYearRejected ==
    /\ Returns("getHistoricalWeather")
    /\ obs.in.key # ""
    /\ \/ BeforeOneYearAgo(obs.in.now, TargetDate(obs.in))
       \/ obs.in.now - TargetDate(obs.in) > 366 * 24
    => RejectedWith(PastYearError)

\* C14 witness: a fetch for a date more than 366 days back has been turned
\* down with the out-of-range error, no request sent.
C14_Witness ==
    /\ Returns("getHistoricalWeather")
    /\ obs.in.key # ""
    /\ obs.in.now - TargetDate(obs.in) > 366 * 24
    /\ RejectedWith(PastYearError)

\* C15: for every target date more than 16 days after the current time, the
\* weather fetch (with its key configured) fails with the out-of-range error
\* and calls no forecast source.
C15_Beyond16DaysRejected ==
    /\ Returns("getHistoricalWeather")
    /\ obs.in.key # ""
    /\ TargetDate(obs.in) - obs.in.now > 16 * 24
    => RejectedWith(HorizonError)

\* f[1] + ... + f[n]
RECURSIVE SumTo(_, _)
SumTo(f, n) == IF n = 0 THEN 0 ELSE SumTo(f, n - 1) + f[n]

\* C16: for any non-empty list of N hourly samples, the aggregated
\* temperature equals the arithmetic mean of the N sample temperatures, and
\* the aggregated rain equals the sum of the samples' rain amounts (a sample
\* with no rain entry contributing 0), not their mean.
C16_MeanTemperatureSummedRain ==
    Returns("aggregateHistoricalData") /\ Len(obs.in.list) > 0
    => LET list == obs.in.list
           N == Len(list)
           out == obs.out[1]
       IN  /\ out.Temp.den # 0
           /\ out.Temp.num * N
                = out.Temp.den * SumTo([i \in 1..N |-> list[i].Temp], N)
           /\ out.Rain
                = SumTo([i \in 1..N |-> IF list[i].Rain = <<>> THEN 0
                                        ELSE list[i].Rain[1]], N)

\* C16 witness: three samples have been aggregated, one of them without a
\* rain entry; the rain is their sum, which their mean is not.
C16_Witness ==
    /\ Returns("aggregateHistoricalData")
    /\ obs.in.list = <<HourRain, HourClear, HourBare>>
    /\ obs.out[1].Rain = 29
    /\ obs.out[1].Temp = [num |-> 471, den |-> 3]

\* The location has one of the characters 0..9 in it.
HasDigit(location) ==
    \E i \in 1..Len(location) :
        SubSeq(location, i, i)
          \in {"0", "1", "2", "3", "4", "5", "6", "7", "8", "9"}

IndexOf(s, t) ==
    LET at == {i \in 1..(Len(s) - Len(t) + 1) : SubSeq(s, i, i + Len(t) - 1) = t}
    IN  IF at = {} THEN 0 ELSE CHOOSE i \in at : \A j \in at : i <= j

\* The places of the sentences in a prompt.
Mandatory(text) == IndexOf(text, "and a temperature of")
PrecipitationClause(text) == IndexOf(text, "falling in the scene.")
VisibilityClause(text) == IndexOf(text, "The atmosphere should appear")
WindClause(text) == IndexOf(text, "Show signs of wind")
Closing(text) == IndexOf(text, "The lighting should match")

\* C18: for every weather summary with rain <= 0, snow <= 0 and wind speed
\* <= 5, the prompt contains no precipitation clause and no wind clause; with
\* wind speed > 10 it contains the strong-winds clause and with wind speed > 5
\* and <= 10 the moderate-winds clause; the optional clauses always appear in
\* the order precipitation, visibility, wind, after the mandatory sentence
\* and before the closing sentence.
C18_OptionalClauses ==
    Returns("generatePrompt")
    => LET wd == obs.in.weatherData
           text == obs.out[1]
           p == PrecipitationClause(text)
           v == VisibilityClause(text)
           w == WindClause(text)
       IN  /\ wd.Rain <= 0 /\ wd.Snow <= 0 /\ wd.WindSpeed <= 50
              => p = 0 /\ w = 0
           /\ wd.WindSpeed > 100
              => IndexOf(text, "Show signs of wind with strong winds such as") > 0
           /\ wd.WindSpeed > 50 /\ wd.WindSpeed <= 100
              => IndexOf(text, "Show signs of wind with moderate winds such as") > 0
           /\ Mandatory(text) > 0
           /\ Closing(text) > 0
           /\ \A c \in {p, v, w} \ {0} : Mandatory(text) < c /\ c < Closing(text)
           /\ p > 0 /\ v > 0 => p < v
           /\ v > 0 /\ w > 0 => v < w
           /\ p > 0 /\ w > 0 => p < w

\* C18 witness: a prompt for rain, poor visibility and strong wind has the
\* three clauses, in that order, between the mandatory and the closing
\* sentence.
C18_Witness ==
    /\ Returns("generatePrompt")
    /\ obs.in.weatherData.Rain > 0
    /\ obs.in.weatherData.Visibility < 1000
    /\ obs.in.weatherData.WindSpeed > 100
    /\ Mandatory(obs.out[1]) < PrecipitationClause(obs.out[1])
    /\ PrecipitationClause(obs.out[1]) < VisibilityClause(obs.out[1])
    /\ VisibilityClause(obs.out[1]) < WindClause(obs.out[1])
    /\ WindClause(obs.out[1]) < Closing(obs.out[1])

\* C20: for one request id, the weather task and the processing task never
\* overlap: from the moment a processing run for the id has been started, the
\* weather task for that id has returned and performs no further step, and
\* so no further write to the request store.
C20_TasksNeverOverlap ==
    [][\A h \in Handlers :
         /\ run[h].pc # "none"
            => /\ wt[run[h].id].pc = "done"
               /\ wt'[run[h].id] = wt[run[h].id]
         /\ run'[h].pc # "none" => wt'[run'[h].id].pc = "done"]_vars

\* C20 witness: a processing run is polling for a request whose weather task
\* has returned after its last write.
C20_Witness ==
    \E h \in Handlers :
        /\ run[h].pc = "poll"
        /\ wt[run[h].id].pc = "done"
        /\ wt[run[h].id].end = "ok"

\* The row of a request as getRequest would find it: <<>> when there is none.
Row(r) == IF r \in DOMAIN store THEN <<store[r]>> ELSE <<>>

\* C21: pipelines of distinct request ids do not interfere: every step taken
\* for request A (submit, confirm, cancel, any stage update, any poll
\* outcome) leaves the stored record of every other request B as it was,
\* under any interleaving.
C21_OtherRequestsUntouched ==
    [][\A a, b \in PairIds :
         obs'.fn = "pipeline" /\ obs'.id = a /\ b # a => Row(b)' = Row(b)]_vars

\* C21 witness: the last step was one of r1, whose run has ended with the
\* image stored, while r2 stands at weather_fetched with its own row.
C21_Witness ==
    /\ obs = Acting("r1")
    /\ Row("r1") # <<>> /\ Row("r2") # <<>>
    /\ store["r1"].status = "completed"
    /\ store["r1"].result_image_path = resultPath("r1")
    /\ store["r2"].status = "weather_fetched"
    /\ store["r2"].image_path = uploadPath("r2")
    /\ store["r2"].result_image_path = ""

\* C22: in a processing run, submit is called only after upload succeeded in
\* the same run, and polling starts only after submit succeeded (the job is
\* at the provider); if upload fails, submit is never called; if upload or
\* submit fails, the run stores status error with a message naming the failed
\* step, stores no job id, and performs no poll: it has not polled before and
\* it is over, for good.
C22_UploadThenSubmitThenPoll ==
    [][\A h \in Handlers :
         /\ run'[h].pc = "submit" /\ run[h].pc # "submit"
            => run[h].pc = "upload" /\ run'[h].url # ""
         /\ run'[h].pc = "poll" /\ run[h].pc # "poll"
            => /\ run[h].pc = "submit"
               /\ \E j \in jobs' : j.pid = run'[h].pid /\ j.input_image = run[h].url
         /\ jobs' # jobs => \E g \in Handlers : run[g].pc = "submit"
         /\ run[h].pc \in {"upload", "submit"} /\ run'[h].pc = "done"
            => /\ run'[h].end = IF run[h].pc = "upload"
                                THEN "upload_failed" ELSE "submit_failed"
               /\ store'[run[h].id].status = "error"
               /\ HasPrefix(store'[run[h].id].error_message,
                            IF run[h].pc = "upload"
                            THEN "Failed to upload image: "
                            ELSE "Failed to create prediction: ")
               /\ store'[run[h].id].prediction_id = store[run[h].id].prediction_id
               /\ jobs' = jobs
               /\ run[h].polls = 0
         /\ run[h].pc = "done" => run'[h] = run[h]]_vars

\* C22 witness: a run is over after its upload failed; the row holds the
\* upload error, no job id, and the provider has no job.
C22_Witness ==
    \E h \in Handlers :
        /\ run[h].pc = "done" /\ run[h].end = "upload_failed"
        /\ store[run[h].id].status = "error"
        /\ HasPrefix(store[run[h].id].error_message, "Failed to upload image: ")
        /\ store[run[h].id].prediction_id = ""
        /\ jobs = {}

\* C23: when a poll returns succeeded but no output URL can be extracted
\* (empty string, empty array, no output), or when the download of the output
\* fails, the run stores status error, leaves the result path empty, and
\* never stores status completed: it is over, and completed is only ever
\* stored by a poll that returned succeeded with a URL whose download
\* succeeded.
C23_NoOutputOrDownloadFailure ==
    [][\A h \in Handlers :
         /\ IsPoll(h) /\ ~obs'.err /\ obs'.status = "succeeded"
              /\ (extractOutputURL(obs'.output) = "" \/ ~obs'.downloaded)
            => /\ store'[run[h].id].status = "error"
               /\ store'[run[h].id].error_message # ""
               /\ store'[run[h].id].result_image_path = ""
               /\ run'[h].pc = "done"
         /\ run[h].pc = "done" => run'[h] = run[h]
         /\ run[h].id \in DOMAIN store
              /\ store'[run[h].id].status = "completed"
              /\ store[run[h].id].status # "completed"
            => /\ IsPoll(h) /\ ~obs'.err /\ obs'.status = "succeeded"
               /\ extractOutputURL(obs'.output) # ""
               /\ obs'.downloaded]_vars

\* C23 witness: a poll returned succeeded with an empty array for output; the
\* run is over and the row is in error with no result path.
C23_Witness ==
    /\ obs.fn = "getPredictionStatus"
    /\ obs.status = "succeeded"
    /\ obs.output = [kind |-> "array", v |-> <<>>]
    /\ run[obs.h].pc = "done"
    /\ store[run[obs.h].id].status = "error"
    /\ store[run[obs.h].id].error_message = "No output URL in prediction result"
    /\ store[run[obs.h].id].result_image_path = ""

\* C24: when a poll returns provider status canceled, the run stops polling
\* and stores status cancelled, leaving error_message and the result path
\* (and every other column) as they were.
C24_CanceledStoresCancelled ==
    [][\A h \in Handlers :
         run[h].pc = "poll" /\ run'[h].pc = "done" /\ run'[h].end = "canceled"
         => /\ store'[run[h].id].status = "cancelled"
            /\ store'[run[h].id].error_message = store[run[h].id].error_message
            /\ store'[run[h].id].result_image_path
                 = store[run[h].id].result_image_path
            /\ store' = [store EXCEPT ![run[h].id].status = "cancelled"]]_vars

\* C24 witness: a run has ended on a canceled prediction; the row is cancelled
\* and still holds the error message another run of the request left there.
C24_Witness ==
    \E h \in Handlers :
        /\ run[h].pc = "done" /\ run[h].end = "canceled"
        /\ store[run[h].id].status = "cancelled"
        /\ store[run[h].id].error_message # ""

C26_StagedFieldsFollowStatus ==
    \A r \in DOMAIN store :
        /\ store[r].weather = <<>> <=> store[r].ai_prompt = ""
        /\ store[r].status \in {"pending", "geocoding", "weather_fetching"}
           => store[r].weather = <<>> /\ store[r].ai_prompt = ""
        /\ store[r].status \in {"pending", "geocoding", "weather_fetching",
                                "weather_fetched", "confirmed"}
           => store[r].prediction_id = ""
        /\ store[r].status = "pending" => store[r].geo = <<>>

\* The columns saveRequest fills in.
CreationFields(r) == <<r.user_id, r.location_input, r.target_date, r.image_path>>

\* The groups of columns of row r that the step changes, each named by the
\* stage that owns it.
Changed(r) ==
    (IF store'[r].geo # store[r].geo THEN {"location"} ELSE {})
      \cup (IF \/ store'[r].weather # store[r].weather
              \/ store'[r].precipitation # store[r].precipitation
              \/ store'[r].ai_prompt # store[r].ai_prompt
            THEN {"weather"} ELSE {})
      \cup (IF store'[r].prediction_id # store[r].prediction_id
            THEN {"job"} ELSE {})
      \cup (IF store'[r].result_image_path # store[r].result_image_path
            THEN {"result"} ELSE {})
      \cup (IF store'[r].error_message # store[r].error_message
            THEN {"error"} ELSE {})

\* C27: each store update changes only the field group of its own stage plus
\* status: the creation fields (user token, location input, target date,
\* source image path) are never changed after creation, no row goes away, a
\* step changes at most one group of a row, and each group is changed only by
\* the step of the stage that owns it (the error message by a step that
\* stores status error).
C27_UpdatesKeepToTheirStage ==
    [][store' # store
       => \A r \in DOMAIN store :
            /\ r \in DOMAIN store'
            /\ CreationFields(store'[r]) = CreationFields(store[r])
            /\ Cardinality(Changed(r)) <= 1
            /\ "location" \in Changed(r) => wt[r].pc = "geocode"
            /\ "weather" \in Changed(r) => wt[r].pc = "save"
            /\ "job" \in Changed(r)
               => \E h \in Handlers : run[h].id = r /\ run[h].pc = "submit"
            /\ "result" \in Changed(r)
               => \E h \in Handlers : run[h].id = r /\ run[h].pc = "poll"
            /\ "error" \in Changed(r) => store'[r].status = "error"]_vars

\* C27 witness: a row that every stage has written, the creation fields as
\* saveRequest stored them.
C27_Witness ==
    \E r \in DOMAIN store :
        /\ store[r].status = "completed"
        /\ store[r].geo # <<>> /\ store[r].weather # <<>>
        /\ store[r].prediction_id # ""
        /\ store[r].result_image_path # ""
        /\ CreationFields(store[r]) = <<"u1", "Paris", "2025-06-01", uploadPath(r)>>

\* The handlers of the GET routes that show a request.
ReadOnlyHandlers ==
    {"statusHandler", "weatherHandler", "processingHandler", "imageHandler"}

\* C28: the read-only paths (status polling, the weather confirmation page,
\* the processing page, the image handler) never change any request record
\* (nor anything else of the pipeline), and no operation of the pipeline ever
\* deletes a request record: once created, a request id stays retrievable.
C28_ReadersWriteNothing ==
    [][/\ obs' # obs /\ obs'.fn \in ReadOnlyHandlers
          => UNCHANGED <<store, submitted, wt, ch, run, jobs>>
       /\ \A r \in DOMAIN store : r \in DOMAIN store']_vars

\* C28 witness: the weather page of a request has been served from its row,
\* which is still there as the weather task left it.
C28_Witness ==
    /\ obs.fn = "weatherHandler"
    /\ obs.code = 200
    /\ obs.id \in DOMAIN store
    /\ obs.page = <<store[obs.id]>>
    /\ store[obs.id].status = "weather_fetched"

\* How far a processWeatherRequest has come.
WtRank(pc) ==
    CASE pc = "none" -> 0 [] pc = "geocode" -> 1 [] pc = "status" -> 2
      [] pc = "weather" -> 3 [] pc = "getreq" -> 4 [] pc = "save" -> 5
      [] pc = "done" -> 6

\* How far a processImageWithReplicate has come.
RunRank(pc) ==
    CASE pc = "none" -> 0 [] pc = "getreq" -> 1 [] pc = "upload" -> 2
      [] pc = "submit" -> 3 [] pc = "poll" -> 4 [] pc = "done" -> 5

\* The returns taken because a stage failed.
StageFailures ==
    {"geocode_failed", "geocode_save_failed", "weather_failed", "getreq_failed",
     "save_failed", "upload_failed", "submit_failed", "no_output",
     "download_failed", "failed", "timeout"}

\* C29: no stage is retried after its own failure: for one request id the
\* geocoder and the weather provider are each called at most once (the
\* weather task only moves on, and has ended once a stage has failed), and in
\* one processing run upload, submit and download are each called at most
\* once (the run only moves on, a download ends it); only the status poll is
\* repeated.
C29_NoStageRetried ==
    [][/\ \A r \in DOMAIN wt :
            /\ wt'[r] # wt[r] => WtRank(wt'[r].pc) > WtRank(wt[r].pc)
            /\ wt'[r].end \in StageFailures => wt'[r].pc = "done"
       /\ \A h \in DOMAIN run :
            /\ run'[h] # run[h]
                 => \/ RunRank(run'[h].pc) > RunRank(run[h].pc)
                    \/ /\ run[h].pc = "poll" /\ run'[h].pc = "poll"
                       /\ run'[h].polls = run[h].polls + 1
            /\ run'[h].end \in StageFailures \cup {"downloaded"}
                 => run'[h].pc = "done"]_vars

\* C29 witness: one run of the request has ended at its failed upload while
\* another has polled twice and is still polling.
C29_Witness ==
    \E h, k \in Handlers :
        /\ run[k].pc = "done" /\ run[k].end = "upload_failed"
        /\ run[h].pc = "poll" /\ run[h].polls >= 2
        /\ run[h].id = run[k].id

\* The returns taken on a report of the provider.
ReportedEnds == {"downloaded", "no_output", "download_failed", "failed", "canceled"}

\* C30: a running poll loop ends only when the provider reports succeeded,
\* failed or canceled (before the 120 attempts are used up), or when the 120
\* attempts are used up; any other step (a cancel, a second confirm, a change
\* of the stored status) leaves the loop where it is, or is one more poll.
C30_PollLoopEndsOnlyOnReportOrTimeout ==
    [][\A h \in DOMAIN run :
         run[h].pc = "poll"
           => \/ run'[h] = run[h]
              \/ /\ run[h].i < maxAttempts
                 /\ run'[h] = [run[h] EXCEPT !.i = @ + 1, !.polls = @ + 1]
              \/ /\ run[h].i < maxAttempts
                 /\ run'[h].pc = "done" /\ run'[h].end \in ReportedEnds
              \/ /\ run[h].i = maxAttempts
                 /\ run'[h].pc = "done" /\ run'[h].end = "timeout"]_vars

\* C30 witness: the user has cancelled the request (no run has been reported
\* canceled) and a second confirm has been answered, yet a run is still
\* polling.
C30_Witness ==
    \E h, k \in Handlers :
        /\ h # k
        /\ run[h].pc = "poll" /\ run[h].polls >= 1
        /\ store[run[h].id].status = "cancelled"
        /\ ch[k].pc = "done" /\ ch[k].id = run[h].id
        /\ run[k].end # "canceled"

\* C31: for a future target date with day offset d (0 <= d <= 16), the
\* forecast entry mapped into the weather summary is the entry for offset d of
\* the returned forecast list (the d+1-th, the list beginning with today),
\* whatever the length of the list the provider returns.
C31_ForecastEntryOfOffset ==
    /\ Returns("getHistoricalWeather")
    /\ obs.in.key # ""
    /\ TargetDate(obs.in) > obs.in.now
    /\ obs.out[1].ok
    => LET d == daysAhead(TargetDate(obs.in) - obs.in.now)
           list == obs.in.fc.body
       IN  /\ d >= 0 /\ d <= 16
           /\ Len(list) >= d + 1
           /\ obs.out[1].res[1] = convertForecastToWeatherData(list[d + 1])

Calls(fn) == obs' # obs /\ obs'.fn = fn /\ ~obs'.alone

NoDataError == "no historical data available for this date"

\* C33: when the history source returns an empty sample list for an in-range
\* past date, the weather fetch fails with the no-data error (it never
\* returns an all-zero summary), and the weather task stores status error
\* without writing any weather field or prompt, and ends.
C33_EmptyHistoryIsNoData ==
    [][/\ Calls("getHistoricalWeather")
       /\ obs'.in.offset <= 0
       /\ obs'.in.hist = Answer(TRUE, 200, <<>>)
       => /\ ~obs'.out[1].ok
          /\ obs'.out[1].err = NoDataError
          /\ \A r \in Ids :
               wt[r].pc = "weather"
               => /\ wt'[r].pc = "done"
                  /\ store'[r].status = "error"
                  /\ store'[r].error_message
                       = "Failed to fetch weather: " \o NoDataError
                  /\ store'[r].weather = store[r].weather
                  /\ store'[r].weather = <<>>
                  /\ store'[r].precipitation = ""
                  /\ store'[r].ai_prompt = ""]_vars

\* C33 witness: the history API has answered yesterday's date with an empty
\* list, and the request is in error with no weather and no prompt.
C33_Witness ==
    /\ obs.fn = "getHistoricalWeather" /\ ~obs.alone
    /\ obs.in.offset = -1
    /\ obs.in.hist = Answer(TRUE, 200, <<>>)
    /\ obs.out[1].err = NoDataError
    /\ \E r \in DOMAIN store :
         /\ store[r].status = "error"
         /\ store[r].weather = <<>>
         /\ wt[r].end = "weather_failed"

\* C34: on both geocoding paths (zip lookup and free-text search), a provider
\* answer with zero matches (an empty array, an object without a place in it)
\* makes the geocoder fail with the not-found error; the geocoder never
\* returns a result with empty name and zero coordinates as a success.
C34_ZeroMatchesIsNotFound ==
    Returns("geocodeLocation") /\ obs.in.key # ""
    => LET answer == obs.in.answer
           out == obs.out[1]
           noMatch == IF HasDigit(obs.in.location)
                      THEN [kind |-> "object", v |-> <<NoGeoResult>>]
                      ELSE [kind |-> "array", v |-> <<>>]
       IN  /\ answer.sent /\ answer.status = 200 /\ answer.body = noMatch
              => ~out.ok /\ out.err = "location not found"
           /\ out.ok => out.res[1] # NoGeoResult

TempBands == {"freezing cold", "cold", "cool", "warm", "hot"}
CloudBands == {"clear", "partly cloudy", "mostly cloudy", "overcast"}

\* The bands named in the sentence of a prompt that says the weather.
TempBandsIn(text) ==
    {b \in TempBands : IndexOf(text, "C (" \o b \o "). ") > 0}
CloudBandsIn(text) ==
    {b \in CloudBands :
        IndexOf(text, ") with " \o b \o " skies and a temperature of") > 0}

\* C35: for every temperature exactly one temperature band is chosen, with
\* the boundaries 0, 10, 20 and 28 each belonging to the upper band (<0
\* freezing cold, [0,10) cold, [10,20) cool, [20,28) warm, >=28 hot), and for
\* every cloud percentage exactly one cloud band is chosen (<20 clear skies,
\* [20,50) partly cloudy, [50,80) mostly cloudy, >=80 overcast).
C35_OneBandEach ==
    Returns("generatePrompt")
    => LET t == obs.in.weatherData.Temp
           c == obs.in.weatherData.Clouds
           text == obs.out[1]
       IN  /\ TempBandsIn(text)
                = {CASE t < 0 -> "freezing cold"
                     [] t >= 0 /\ t < 100 -> "cold"
                     [] t >= 100 /\ t < 200 -> "cool"
                     [] t >= 200 /\ t < 280 -> "warm"
                     [] t >= 280 -> "hot"}
           /\ CloudBandsIn(text)
                = {CASE c < 20 -> "clear"
                     [] c >= 20 /\ c < 50 -> "partly cloudy"
                     [] c >= 50 /\ c < 80 -> "mostly cloudy"
                     [] c >= 80 -> "overcast"}

\* C35 witness: a prompt for 28.0 degrees and 80% clouds says hot and
\* overcast.
C35_Witness ==
    /\ Returns("generatePrompt")
    /\ obs.in.weatherData.Temp = 280
    /\ obs.in.weatherData.Clouds = 80
    /\ TempBandsIn(obs.out[1]) = {"hot"}
    /\ CloudBandsIn(obs.out[1]) = {"overcast"}

\* The precipitation clauses of a prompt, each with the place it begins at.
PrecipitationClausesIn(text) ==
    {c \in {"light", "moderate", "heavy"} \X {"rain", "snow"}
             \X (1..Len(text)) :
        LET clause == "Add " \o c[1] \o " " \o c[2] \o " falling in the scene. "
        IN  /\ c[3] + Len(clause) - 1 <= Len(text)
            /\ SubSeq(text, c[3], c[3] + Len(clause) - 1) = clause}

\* The band of an amount held in tenths of a millimetre.
AmountBand(tenths) ==
    IF tenths < 25 THEN "light" ELSE IF tenths < 100 THEN "moderate" ELSE "heavy"

\* C36: the prompt contains at most one precipitation clause: when rain > 0
\* it is a rain clause banded by the rain amount (<2.5 light, <10 moderate,
\* otherwise heavy) even if snow > 0; when rain <= 0 and snow > 0 it is a snow
\* clause with the same bands on the snow amount; when both are <= 0 there is
\* none.
C36_OnePrecipitationClause ==
    Returns("generatePrompt")
    => LET wd == obs.in.weatherData
           found == PrecipitationClausesIn(obs.out[1])
       IN  /\ Cardinality(found) <= 1
           /\ {<<c[1], c[2]>> : c \in found}
                = IF wd.Rain > 0 THEN {<<AmountBand(wd.Rain), "rain">>}
                  ELSE IF wd.Snow > 0 THEN {<<AmountBand(wd.Snow), "snow">>}
                  ELSE {}

\* C36 witness: with 0.1 mm of rain and 10 mm of snow the prompt has the
\* light-rain clause, once, and no snow clause.
C36_Witness ==
    /\ Returns("generatePrompt")
    /\ obs.in.weatherData.Rain = 1
    /\ obs.in.weatherData.Snow = 100
    /\ Cardinality(PrecipitationClausesIn(obs.out[1])) = 1
    /\ \E c \in PrecipitationClausesIn(obs.out[1]) :
         c[1] = "light" /\ c[2] = "rain"

TransformClients ==
    {"uploadFileToReplicate", "createReplicatePrediction", "getPredictionStatus"}
WeatherClients == {"geocodeLocation", "getHistoricalWeather"}

\* The client whose return obs' holds has failed without a request sent.
FailsUnsent == ~obs'.out[1].ok /\ obs'.out[1].calls = <<>>

\* C37: when the transform provider credential is absent, upload, submit and
\* poll each return an error without contacting the provider, so a confirmed
\* request's run ends with status error stored and no job is ever submitted;
\* when the weather credential is absent, geocoding and weather fetch return
\* an error without contacting the provider and the weather task ends with
\* status error stored.
C37_AbsentCredentialIsAnError ==
    [][/\ obs' # obs /\ obs'.token = "" /\ obs'.fn \in TransformClients
          => FailsUnsent
       /\ obs' # obs /\ obs'.key = "" /\ obs'.fn \in WeatherClients
          => FailsUnsent
       /\ obs.token = ""
          => /\ jobs' = {}
             /\ \A h \in Handlers :
                  run[h].pc \notin {"none", "done"} /\ run'[h].pc = "done"
                  => store'[run[h].id].status = "error"
       /\ obs.key = ""
          => \A r \in Ids :
               wt[r].pc \notin {"none", "done"} /\ wt'[r].pc = "done"
               => store'[r].status = "error"]_vars

\* C37 witness: with no token, the run of a confirmed request has ended at
\* the upload, which failed unsent; the request is in error and no job exists.
C37_Witness ==
    /\ obs.fn = "uploadFileToReplicate" /\ ~obs.alone
    /\ obs.token = ""
    /\ obs.out[1].err = "REPLICATE_API_TOKEN not set"
    /\ obs.out[1].calls = <<>>
    /\ jobs = {}
    /\ \E h \in Handlers :
         /\ run[h].end = "upload_failed"
         /\ store[run[h].id].status = "error"
         /\ store[run[h].id].error_message
              = "Failed to upload image: REPLICATE_API_TOKEN not set"

\* C38: every processing run started by a confirm terminates, and when it
\* has terminated the stored status of its request is completed, error or
\* cancelled; this holds also when a store write inside the run (saving the
\* job id, saving the result path) fails.
C38_RunsEndInTerminalStatus ==
    \A h \in ObsHandlers :
        (run[h].pc # "none")
          ~> (run[h].pc = "done" /\ store[run[h].id].status \in Terminal)

\* Every run that has been started returns.
RunsTerminate ==
    \A h \in ObsHandlers : (run[h].pc # "none") ~> (run[h].pc = "done")

\* C39: after a user cancel action has been applied to a request, no
\* transform job is ever submitted for that request, including when a confirm
\* for the same id was already in flight (had read status weather_fetched) at
\* the time of the cancel.
C39_NoJobAfterCancel ==
    [][\A r \in obs.ids : \A j \in jobs' : j.id = r => j \in jobs]_vars

\* C40: in every reachable state, a request with status completed has a
\* non-empty result image path: status completed is only ever written in the
\* same store write as the result path, by a run whose poll returned
\* succeeded and whose download succeeded.
C40_CompletedHasResultPath ==
    [][\A r \in DOMAIN store' :
         store'[r].status = "completed"
         => /\ store'[r].result_image_path # ""
            /\ r \in DOMAIN store
            /\ store[r].status # "completed"
               => /\ store'[r].result_image_path = resultPath(r)
                  /\ \E h \in Handlers :
                       /\ run[h].pc = "poll" /\ run[h].id = r
                       /\ run'[h].pc = "done" /\ run'[h].end = "downloaded"]_vars

\* C40 witness: a run has downloaded its result and the request is completed,
\* with the path of the downloaded file.
C40_Witness ==
    \E h \in Handlers :
        /\ run[h].end = "downloaded"
        /\ store[run[h].id].status = "completed"
        /\ store[run[h].id].result_image_path = resultPath(run[h].id)

====
